---------------------------- MODULE Spec2Model ----------------------------
(***************************************************************************)
(* ALX Polly: the security layer of the polling application.               *)
(*                                                                         *)
(*   - src/lib/security.ts      SECURITY_CONFIG, DANGEROUS_PATTERNS and    *)
(*                              SecurityUtils (sanitizer, validators, CSP) *)
(*   - src/middleware.ts        the in-memory rate limiter and the         *)
(*                              request-intercepting middleware            *)
(*   - src/unnamed/part_000     updateSession (lib/supabase/middleware)    *)
(*   - src/app/lib/actions/poll-actions.ts and the REST route handlers     *)
(*                              createPoll / updatePoll                    *)
(*                                                                         *)
(* Strings are sequences of one-character strings, so that trimming,       *)
(* pattern removal, prefix tests and the kebab-case conversion are         *)
(* computed character by character as the code computes them.              *)
(***************************************************************************)
EXTENDS Integers, Sequences, FiniteSets, TLC

VARIABLES
    now,            \* Date.now(), in milliseconds
    rateLimitMap,   \* middleware.ts: Map<ip, {count, resetTime}>
    response,       \* the response to the last request, with how it was produced
    served,         \* number of requests handled so far (bounded runs only)
    limiter,        \* direct calls of isRateLimited: policy, calls in window, last result
    hist,           \* per client key: history of an auth-only burst
    obs,            \* observation of one interval of general-window length
    text,           \* sanitizer runs: input, output, output of a second pass
    polls,          \* the persisted polls table
    pollResult,     \* the last poll operation: what was submitted, what was written
    inflight,       \* middleware invocations in flight: where each one stands
    admitted,       \* per client key: evaluations admitted since its record was created
    probe,          \* one call of a validator or the sanitizer: input and outcome
    votes,          \* the persisted votes table
    voteResult,     \* the last vote operation: what was submitted, what was answered
    authCall,       \* the last login / register: what was given, what the provider got
    access,         \* the last poll operation by id: caller, id, what reached persistence
    form,           \* PollCreateForm: the options state
    admin,          \* AdminPage: component state, handlers in flight
    retry,          \* a client that obeys Retry-After: the rejection it waits out
    solo            \* the rate-limit map of the run made without the second client

vars == <<now, rateLimitMap, response, served, limiter, hist, obs, text,
          polls, pollResult, inflight, admitted, probe, votes, voteResult,
          authCall, access, form, admin, retry, solo>>

---------------------------------------------------------------------------
(* Bounds of the model.                                                    *)

MaxWindows  == 3    \* single-client runs last MaxWindows auth windows (+ MaxMillis ms)
ShortWindows == 1   \* many-client runs last ShortWindows auth windows (+ MaxMillis ms)
MaxMillis   == 2    \* millisecond offsets explored around a window boundary
MaxRequests == 5    \* requests per run in the many-client specification
MaxExtra    == 2    \* calls tried beyond the limit inside one window
MaxFrags    == 3    \* fragments concatenated into one sanitizer input
MaxPolls    == 1    \* rows in the polls table

---------------------------------------------------------------------------
(* Characters and strings.                                                 *)

Min(a, b) == IF a < b THEN a ELSE b

UpperChars == <<"A","B","C","D","E","F","G","H","I","J","K","L","M",
                "N","O","P","Q","R","S","T","U","V","W","X","Y","Z">>
LowerChars == <<"a","b","c","d","e","f","g","h","i","j","k","l","m",
                "n","o","p","q","r","s","t","u","v","w","x","y","z">>
DigitChars == <<"0","1","2","3","4","5","6","7","8","9">>

Range(s) == { s[i] : i \in DOMAIN s }

UpperSet == Range(UpperChars)
WordSet  == Range(UpperChars) \cup Range(LowerChars) \cup Range(DigitChars)
                \cup {"_"}
LowerOf  == [c \in UpperSet |->
                LowerChars[CHOOSE i \in DOMAIN UpperChars : UpperChars[i] = c]]

IsUpper(c) == c \in UpperSet

\* String.prototype.toLowerCase on one character
toLowerCase(c) == IF c \in UpperSet THEN LowerOf[c] ELSE c

\* the regular expression classes \w and \s
IsWord(c)  == c \in WordSet
IsSpace(c) == c \in {" ", "\t", "\n", "\r"}

\* pieces.join(sep)
RECURSIVE Join(_, _)
Join(ss, sep) ==
    IF ss = <<>> THEN <<>>
    ELSE IF Len(ss) = 1 THEN ss[1]
    ELSE ss[1] \o sep \o Join(Tail(ss), sep)

\* String.prototype.startsWith (case-sensitive)
startsWith(s, p) == Len(s) >= Len(p) /\ SubSeq(s, 1, Len(p)) = p
endsWith(s, p) ==
    Len(s) >= Len(p) /\ SubSeq(s, Len(s) - Len(p) + 1, Len(s)) = p

\* the literal lit (given in lower case) occurs in s at position i, under /i
MatchCI(s, i, lit) ==
    /\ i >= 1
    /\ i + Len(lit) - 1 <= Len(s)
    /\ \A k \in 1..Len(lit) : toLowerCase(s[i + k - 1]) = lit[k]

\* String.prototype.trim
RECURSIVE TrimLeft(_)
TrimLeft(s) ==
    IF s # <<>> /\ IsSpace(Head(s)) THEN TrimLeft(Tail(s)) ELSE s

RECURSIVE TrimRight(_)
TrimRight(s) ==
    IF s # <<>> /\ IsSpace(s[Len(s)])
    THEN TrimRight(SubSeq(s, 1, Len(s) - 1)) ELSE s

trim(s) == TrimRight(TrimLeft(s))

---------------------------------------------------------------------------
(* src/lib/security.ts: SECURITY_CONFIG                                    *)

SECURITY_CONFIG == [
    RATE_LIMIT |-> [
        GENERAL |-> [WINDOW_MS |-> 15 * 60 * 1000, MAX_REQUESTS |-> 100],
        AUTH    |-> [WINDOW_MS |-> 5 * 60 * 1000,  MAX_ATTEMPTS |-> 5]],
    INPUT_LIMITS |-> [
        NAME     |-> [MIN |-> 2, MAX |-> 100],
        EMAIL    |-> [MIN |-> 3, MAX |-> 254],
        PASSWORD |-> [MIN |-> 8, MAX |-> 128],
        QUESTION |-> [MIN |-> 3, MAX |-> 500],
        OPTION   |-> [MIN |-> 1, MAX |-> 200],
        POLL_ID  |-> [MIN |-> 1, MAX |-> 100]],
    \* Object.entries(CSP): the directives in insertion order
    CSP |-> <<
        [key |-> <<"D","E","F","A","U","L","T","_","S","R","C">>,
         sources |-> << <<"'","s","e","l","f","'">> >>],
        [key |-> <<"S","C","R","I","P","T","_","S","R","C">>,
         sources |-> << <<"'","s","e","l","f","'">>,
                        <<"'","u","n","s","a","f","e","-","i","n","l","i","n","e","'">>,
                        <<"'","u","n","s","a","f","e","-","e","v","a","l","'">> >>],
        [key |-> <<"S","T","Y","L","E","_","S","R","C">>,
         sources |-> << <<"'","s","e","l","f","'">>,
                        <<"'","u","n","s","a","f","e","-","i","n","l","i","n","e","'">> >>],
        [key |-> <<"I","M","G","_","S","R","C">>,
         sources |-> << <<"'","s","e","l","f","'">>,
                        <<"d","a","t","a",":">>,
                        <<"h","t","t","p","s",":">> >>],
        [key |-> <<"F","O","N","T","_","S","R","C">>,
         sources |-> << <<"'","s","e","l","f","'">> >>],
        [key |-> <<"C","O","N","N","E","C","T","_","S","R","C">>,
         sources |-> << <<"'","s","e","l","f","'">>,
                        <<"h","t","t","p","s",":","/","/","*",".","s","u","p",
                          "a","b","a","s","e",".","c","o">> >>],
        [key |-> <<"F","R","A","M","E","_","A","N","C","E","S","T","O","R","S">>,
         sources |-> << <<"'","n","o","n","e","'">> >>] >>,
    \* Object.entries(SECURITY_HEADERS): name and value, in insertion order
    SECURITY_HEADERS |-> <<
        <<"X-Content-Type-Options", "nosniff">>,
        <<"X-Frame-Options", "DENY">>,
        <<"X-XSS-Protection", "1; mode=block">>,
        <<"Referrer-Policy", "strict-origin-when-cross-origin">>,
        <<"Permissions-Policy", "camera=(), microphone=(), geolocation=()">> >>
]

RATE_LIMIT == SECURITY_CONFIG.RATE_LIMIT
INPUT_LIMITS == SECURITY_CONFIG.INPUT_LIMITS

---------------------------------------------------------------------------
(* src/lib/security.ts: SecurityUtils.generateCSP                          *)

\* directive.replace(/([A-Z])/g, '-$1').toLowerCase()
RECURSIVE kebabCase(_)
kebabCase(directive) ==
    IF directive = <<>> THEN <<>>
    ELSE LET c == Head(directive) IN
         (IF IsUpper(c) THEN <<"-", toLowerCase(c)>> ELSE <<toLowerCase(c)>>)
            \o kebabCase(Tail(directive))

\* `${kebabCase} ${sources.join(' ')}`
Clause(entry) == kebabCase(entry.key) \o <<" ">> \o Join(entry.sources, <<" ">>)

generateCSP ==
    Join([i \in DOMAIN SECURITY_CONFIG.CSP |-> Clause(SECURITY_CONFIG.CSP[i])],
         <<";", " ">>)

---------------------------------------------------------------------------
(* src/lib/security.ts: DANGEROUS_PATTERNS and SecurityUtils.sanitizeInput *)

\* the tag names of the four block patterns, and the literal patterns
DANGEROUS_PATTERNS == <<
    [lit |-> <<"s","c","r","i","p","t">>,   kind |-> "block"],
    [lit |-> <<"i","f","r","a","m","e">>,   kind |-> "block"],
    [lit |-> <<"o","b","j","e","c","t">>,   kind |-> "block"],
    [lit |-> <<"e","m","b","e","d">>,   kind |-> "block"],
    [lit |-> <<"j","a","v","a","s","c","r","i","p","t",":">>, kind |-> "literal"],
    [lit |-> <<"o","n">>, kind |-> "handler"],
    [lit |-> <<"v","b","s","c","r","i","p","t",":">>, kind |-> "literal"],
    [lit |-> <<"d","a","t","a",":">>, kind |-> "literal"] >>

OpenTag(name)  == <<"<">> \o name
CloseTag(name) == <<"<", "/">> \o name \o <<">">>

\* first index >= i where s has the run of characters satisfying the class end
RECURSIVE SkipWord(_, _)
SkipWord(s, i) == IF i <= Len(s) /\ IsWord(s[i]) THEN SkipWord(s, i + 1) ELSE i

RECURSIVE SkipSpace(_, _)
SkipSpace(s, i) == IF i <= Len(s) /\ IsSpace(s[i]) THEN SkipSpace(s, i + 1) ELSE i

\* position of the first closing tag at or after i, 0 if there is none
FindCI(s, i, lit) ==
    LET found == { j \in i..(Len(s) - Len(lit) + 1) : MatchCI(s, j, lit) }
    IN  IF found = {} THEN 0
        ELSE CHOOSE j \in found : \A k \in found : j <= k

\* /<tag\b[^<]*(?:(?!<\/tag>)<[^<]*)*<\/tag>/i at position i: the opening
\* tag name must end at a word boundary, and the match runs to the end of the
\* first closing tag that follows.  Result: index after the match, 0 if none.
BlockEnd(s, i, name) ==
    LET after == i + Len(OpenTag(name)) IN
    IF /\ MatchCI(s, i, OpenTag(name))
       /\ after <= Len(s)
       /\ ~IsWord(s[after])
    THEN LET close == FindCI(s, after, CloseTag(name)) IN
         IF close = 0 THEN 0 ELSE close + Len(CloseTag(name))
    ELSE 0

\* /on\w+\s*=/i at position i
HandlerEnd(s, i) ==
    IF MatchCI(s, i, <<"o","n">>)
    THEN LET w == SkipWord(s, i + 2)
             e == SkipSpace(s, w) IN
         IF w > i + 2 /\ e <= Len(s) /\ s[e] = "=" THEN e + 1 ELSE 0
    ELSE 0

\* the pattern matched at position i: index after the match, 0 if no match
MatchEnd(pattern, s, i) ==
    CASE pattern.kind = "block"   -> BlockEnd(s, i, pattern.lit)
      [] pattern.kind = "handler" -> HandlerEnd(s, i)
      [] pattern.kind = "literal" ->
            IF MatchCI(s, i, pattern.lit) THEN i + Len(pattern.lit) ELSE 0

\* the character every match of the pattern starts with, in lower case
Lead(pattern) ==
    CASE pattern.kind = "block"   -> "<"
      [] pattern.kind = "handler" -> "o"
      [] pattern.kind = "literal" -> pattern.lit[1]

\* the first position at or after i where the pattern matches, 0 if none
NextMatch(pattern, s, i) ==
    LET found == { j \in i..Len(s) : /\ toLowerCase(s[j]) = Lead(pattern)
                                     /\ MatchEnd(pattern, s, j) > 0 }
    IN  IF found = {} THEN 0
        ELSE CHOOSE j \in found : \A k \in found : j <= k

\* s.replace(pattern, '') with the g flag: one left-to-right pass, matches
\* removed, scanning resumed right after each match
RECURSIVE ReplaceFrom(_, _, _)
ReplaceFrom(pattern, s, i) ==
    LET j == NextMatch(pattern, s, i) IN
    IF j = 0 THEN SubSeq(s, i, Len(s))
    ELSE SubSeq(s, i, j - 1) \o ReplaceFrom(pattern, s, MatchEnd(pattern, s, j))

replace(s, pattern) == ReplaceFrom(pattern, s, 1)

\* for (const pattern of DANGEROUS_PATTERNS) sanitized = sanitized.replace(..)
RECURSIVE RemovePatterns(_, _)
RemovePatterns(s, k) ==
    IF k > Len(DANGEROUS_PATTERNS) THEN s
    ELSE RemovePatterns(replace(s, DANGEROUS_PATTERNS[k]), k + 1)

\* a value whose typeof is not 'string' (null, a number, an object): told
\* apart from every string by its one element, which is not a character
NotAString == <<"not a string">>

IsString(v) == v # NotAString

\* sanitizeInput without the typeof test
sanitizeInput_unguarded(input) ==
    RemovePatterns(trim(input), 1)

\* SecurityUtils.sanitizeInput
sanitizeInput(input) ==
    IF ~IsString(input) THEN <<>>
    ELSE RemovePatterns(trim(input), 1)

\* validateLength with the length taken before trimming
validateLength_untrimmed(value, min, max) ==
    IF ~IsString(value) THEN FALSE
    ELSE LET length == Len(value) IN length >= min /\ length <= max

\* SecurityUtils.validateLength
validateLength(value, min, max) ==
    IF ~IsString(value) THEN FALSE
    ELSE LET length == Len(trim(value)) IN length >= min /\ length <= max

---------------------------------------------------------------------------
(* src/middleware.ts: the rate limiter                                     *)

\* Map.prototype.get / set on rateLimitMap (a function on the keys present)
Null == [null |-> TRUE]

MapGet(map, key) == IF key \in DOMAIN map THEN map[key] ELSE Null

MapSet(map, key, value) ==
    [k \in DOMAIN map \cup {key} |-> IF k = key THEN value ELSE map[k]]

\* isRateLimited with the window restarted by every admitted request
isRateLimited_slides(map, ip, isAuth, t) ==
    LET window == IF isAuth THEN RATE_LIMIT.AUTH.WINDOW_MS
                            ELSE RATE_LIMIT.GENERAL.WINDOW_MS
        maxRequests == IF isAuth THEN RATE_LIMIT.AUTH.MAX_ATTEMPTS
                                 ELSE RATE_LIMIT.GENERAL.MAX_REQUESTS
        record == MapGet(map, ip)
    IN  IF record = Null \/ t > record.resetTime
        THEN [map |-> MapSet(map, ip, [resetTime |-> t + window, count |-> 1]),
              limited |-> FALSE]
        ELSE IF record.count >= maxRequests
        THEN [map |-> map, limited |-> TRUE]
        ELSE [map |-> MapSet(map, ip, [resetTime |-> t + window,
                                       count |-> record.count + 1]),
              limited |-> FALSE]

\* isRateLimited with the limit test written as count > maxRequests
isRateLimited_offByOne(map, ip, isAuth, t) ==
    LET window == IF isAuth THEN RATE_LIMIT.AUTH.WINDOW_MS
                            ELSE RATE_LIMIT.GENERAL.WINDOW_MS
        maxRequests == IF isAuth THEN RATE_LIMIT.AUTH.MAX_ATTEMPTS
                                 ELSE RATE_LIMIT.GENERAL.MAX_REQUESTS
        record == MapGet(map, ip)
    IN  IF record = Null \/ t > record.resetTime
        THEN [map |-> MapSet(map, ip, [resetTime |-> t + window, count |-> 1]),
              limited |-> FALSE]
        ELSE IF record.count > maxRequests
        THEN [map |-> map, limited |-> TRUE]
        ELSE [map |-> MapSet(map, ip, [resetTime |-> record.resetTime,
                                       count |-> record.count + 1]),
              limited |-> FALSE]

\* isRateLimited(ip, isAuth) at time t on the map: the verdict and the map
\* it leaves behind
isRateLimited(map, ip, isAuth, t) ==
    LET window == IF isAuth THEN RATE_LIMIT.AUTH.WINDOW_MS
                            ELSE RATE_LIMIT.GENERAL.WINDOW_MS
        maxRequests == IF isAuth THEN RATE_LIMIT.AUTH.MAX_ATTEMPTS
                                 ELSE RATE_LIMIT.GENERAL.MAX_REQUESTS
        record == MapGet(map, ip)
    IN  IF record = Null \/ t > record.resetTime
        THEN [map |-> MapSet(map, ip, [resetTime |-> t + window, count |-> 1]),
              limited |-> FALSE]
        ELSE IF record.count >= maxRequests
        THEN [map |-> map, limited |-> TRUE]
        ELSE [map |-> MapSet(map, ip, [resetTime |-> record.resetTime,
                                       count |-> record.count + 1]),
              limited |-> FALSE]

---------------------------------------------------------------------------
(* src/middleware.ts: the middleware, and updateSession                    *)

\* value.split(',')[0]
RECURSIVE FirstPart(_)
FirstPart(s) ==
    IF s = <<>> \/ Head(s) = "," THEN <<>>
    ELSE <<Head(s)>> \o FirstPart(Tail(s))

\* a header is absent (headers.get gives null) or carries a value;
\* headers.get('x-forwarded-for')?.split(',')[0]?.trim()
\*   || headers.get('x-real-ip') || 'unknown'
ClientIp(request) ==
    LET forwarded == IF request.xForwardedFor.present
                     THEN trim(FirstPart(request.xForwardedFor.value))
                     ELSE <<>>
    IN  IF forwarded # <<>> THEN forwarded
        ELSE IF request.xRealIp.present /\ request.xRealIp.value # <<>>
        THEN request.xRealIp.value
        ELSE <<"u","n","k","n","o","w","n">>

isAuthRoute(pathname) ==
    \/ startsWith(pathname, <<"/","l","o","g","i","n">>)
    \/ startsWith(pathname, <<"/","r","e","g","i","s","t","e","r">>)
    \/ startsWith(pathname, <<"/","a","u","t","h">>)

\* config.matcher: the paths the middleware runs on,
\* /((?!_next/static|_next/image|favicon.ico|login|register|.*\.(?:svg|..)$).*)
ImageExtensions == { <<".","s","v","g">>, <<".","p","n","g">>, <<".","j","p","g">>,
                     <<".","j","p","e","g">>, <<".","g","i","f">>,
                     <<".","w","e","b","p">> }

matcher(pathname) ==
    /\ pathname # <<>>
    /\ Head(pathname) = "/"
    /\ LET rest == Tail(pathname) IN
       /\ ~startsWith(rest, <<"_","n","e","x","t","/","s","t","a","t","i","c">>)
       /\ ~startsWith(rest, <<"_","n","e","x","t","/","i","m","a","g","e">>)
       /\ ~(/\ startsWith(rest, <<"f","a","v","i","c","o","n">>)
            /\ Len(rest) >= 11
            /\ SubSeq(rest, 9, 11) = <<"i","c","o">>)
       /\ ~startsWith(rest, <<"l","o","g","i","n">>)
       /\ ~startsWith(rest, <<"r","e","g","i","s","t","e","r">>)
       /\ ~\E ext \in ImageExtensions : endsWith(rest, ext)

\* lib/supabase/middleware.ts: updateSession.  The session lookup is the auth
\* provider's; request.user says whether it found a user.
updateSession(request) ==
    IF /\ ~request.user
       /\ ~startsWith(request.pathname, <<"/","l","o","g","i","n">>)
       /\ ~startsWith(request.pathname, <<"/","a","u","t","h">>)
    THEN [kind |-> "redirect", status |-> 307, body |-> "",
          headers |-> ("Location" :> "/login")]
    ELSE [kind |-> "next", status |-> 200, body |-> "",
          headers |-> <<>>]

\* headers.set(name, value)
HeaderSet(headers, name, value) ==
    [h \in DOMAIN headers \cup {name} |-> IF h = name THEN value ELSE headers[h]]

\* entries.forEach(([header, value]) => response.headers.set(header, value))
RECURSIVE SetAll(_, _)
SetAll(headers, entries) ==
    IF entries = <<>> THEN headers
    ELSE SetAll(HeaderSet(headers, Head(entries)[1], Head(entries)[2]),
                Tail(entries))

\* the record of one isRateLimited call made for a request
Evaluation(map, ip, isAuth, result) ==
    [after |-> MapGet(result.map, ip), isAuth |-> isAuth,
     limited |-> result.limited, before |-> MapGet(map, ip)]

\* the rejection built with one retry hint for both policies
TooManyRequests_sameHint(message, retryAfter) ==
    [kind |-> "rejected", status |-> 429, body |-> message,
     headers |-> ("Retry-After" :> "900") @@ ("Content-Type" :> "text/plain")]

\* new NextResponse(message, {status: 429, headers: {...}})
TooManyRequests(message, retryAfter) ==
    [kind |-> "rejected", status |-> 429, body |-> message,
     headers |-> ("Retry-After" :> retryAfter) @@ ("Content-Type" :> "text/plain")]

\* the middleware with the general evaluation made before the auth verdict is
\* acted on
middleware_chargesBoth(map, request, t) ==
    LET ip == ClientIp(request)
        authRoute == isAuthRoute(request.pathname)
        auth == isRateLimited(map, ip, TRUE, t)
        authEvals == IF authRoute THEN <<Evaluation(map, ip, TRUE, auth)>>
                     ELSE <<>>
        map1 == IF authRoute THEN auth.map ELSE map
        general == isRateLimited(map1, ip, FALSE, t)
        allEvals == authEvals \o <<Evaluation(map1, ip, FALSE, general)>>
    IN  IF authRoute /\ auth.limited
        THEN [response |-> TooManyRequests(
                  "Too many authentication attempts. Please try again later.",
                  "300"), map |-> general.map, updateSession |-> FALSE,
              evals |-> authEvals]
        ELSE IF general.limited
        THEN [response |-> TooManyRequests(
                  "Too many requests. Please try again later.", "900"), map |-> general.map, updateSession |-> FALSE,
              evals |-> allEvals]
        ELSE LET session == updateSession(request)
                 withStatic == SetAll(session.headers, SECURITY_CONFIG.SECURITY_HEADERS)
             IN [response |-> [session EXCEPT !.headers =
                     HeaderSet(withStatic, "Content-Security-Policy",
                               generateCSP)], map |-> general.map, updateSession |-> TRUE,
                 evals |-> allEvals]

\* middleware(request) at time t on the map: the response, the map it leaves
\* behind, the isRateLimited calls it made, and whether updateSession was called
middleware(map, request, t) ==
    LET ip == ClientIp(request)
        authRoute == isAuthRoute(request.pathname)
        auth == isRateLimited(map, ip, TRUE, t)
        authEvals == IF authRoute THEN <<Evaluation(map, ip, TRUE, auth)>>
                     ELSE <<>>
        map1 == IF authRoute THEN auth.map ELSE map
        general == isRateLimited(map1, ip, FALSE, t)
        allEvals == authEvals \o <<Evaluation(map1, ip, FALSE, general)>>
    IN  IF authRoute /\ auth.limited
        THEN [response |-> TooManyRequests(
                  "Too many authentication attempts. Please try again later.",
                  "300"), map |-> auth.map, updateSession |-> FALSE,
              evals |-> authEvals]
        ELSE IF general.limited
        THEN [response |-> TooManyRequests(
                  "Too many requests. Please try again later.", "900"), map |-> general.map, updateSession |-> FALSE,
              evals |-> allEvals]
        ELSE LET session == updateSession(request)
                 withStatic == SetAll(session.headers, SECURITY_CONFIG.SECURITY_HEADERS)
             IN [response |-> [session EXCEPT !.headers =
                     HeaderSet(withStatic, "Content-Security-Policy",
                               generateCSP)], map |-> general.map, updateSession |-> TRUE,
                 evals |-> allEvals]

\* a request the matcher excludes is served without the middleware
Unmatched(map) ==
    [response |-> [kind |-> "unmatched", status |-> 200, body |-> "",
                   headers |-> <<>>], map |-> map, updateSession |-> FALSE,
     evals |-> <<>>]

---------------------------------------------------------------------------
(* Requests and the passing of time.                                       *)

\* the clients of the many-client runs, by the headers their requests carry
Absent == [value |-> <<>>, present |-> FALSE]
Header(value) == [value |-> value, present |-> TRUE]

Clients == {
    [xForwardedFor |-> Header(<<" ","a"," ",",","b">>), xRealIp |-> Header(<<"b">>)],
    [xForwardedFor |-> Header(<<>>),                    xRealIp |-> Header(<<"a">>)],
    [xForwardedFor |-> Absent,                          xRealIp |-> Absent] }

Paths == { <<"/","l","o","g","i","n">>,
           <<"/","r","e","g","i","s","t","e","r">>,
           <<"/","a","u","t","h","/","c","b">>,
           <<"/","p","o","l","l","s">>,
           <<"/","l","o","g","o",".","p","n","g">> }

Requests ==
    { [xForwardedFor |-> c.xForwardedFor, xRealIp |-> c.xRealIp,
       pathname |-> p, user |-> u] : c \in Clients, p \in Paths, u \in BOOLEAN }

\* the requests of the single-client runs
LongRequests ==
    { [xForwardedFor |-> Header(<<"a">>), xRealIp |-> Absent,
        pathname |-> p, user |-> u] :
        p \in { <<"/","a","u","t","h","/","c","b">>, <<"/","p","o","l","l","s">> },
        u \in BOOLEAN }

NoResponse ==
    [kind |-> "none", ip |-> <<>>, pathname |-> <<>>, updateSession |-> FALSE,
     status |-> 0, body |-> "", headers |-> <<>>, evals |-> <<>>]

\* the request is handled at the current time: by the middleware when the
\* matcher selects its path, without it otherwise
Handle(request) ==
    \E r \in { IF matcher(request.pathname)
               THEN middleware(rateLimitMap, request, now)
               ELSE Unmatched(rateLimitMap) } :
        /\ rateLimitMap' = r.map
        /\ response' = [kind |-> r.response.kind, ip |-> ClientIp(request),
                        pathname |-> request.pathname, updateSession |-> r.updateSession,
                        status |-> r.response.status, body |-> r.response.body,
                        headers |-> r.response.headers, evals |-> r.evals]

\* history of a key whose requests so far are all auth-route requests made
\* within one auth window of the first; dropped as soon as that stops
HistNone == [n |-> 0, first |-> 0, pure |-> FALSE]

NextHist(h, request, t, fresh) ==
    IF fresh
    THEN IF isAuthRoute(request.pathname)
         THEN [n |-> 1, first |-> t, pure |-> TRUE] ELSE HistNone
    ELSE IF /\ h.pure
            /\ isAuthRoute(request.pathname)
            /\ t < h.first + RATE_LIMIT.AUTH.WINDOW_MS
            /\ h.n < RATE_LIMIT.AUTH.MAX_ATTEMPTS + MaxExtra
         THEN [h EXCEPT !.n = h.n + 1]
         ELSE HistNone

Request(request) ==
    /\ served < MaxRequests
    /\ served' = served + 1
    /\ Handle(request)
    /\ hist' = IF matcher(request.pathname)
               THEN LET ip == ClientIp(request) IN
                    MapSet(hist, ip,
                           NextHist(MapGet(hist, ip), request, now,
                                    ip \notin DOMAIN hist))
               ELSE hist
    /\ UNCHANGED <<now, limiter, obs, text, polls, pollResult,
                   inflight, admitted, probe, votes, voteResult, authCall,
                   access, form, admin, retry, solo>>

\* the interval of general-window length that starts with the key's first
\* request: the requests each policy admitted in the interval
ObsNone == [auth |-> 0, general |-> 0, started |-> FALSE, start |-> 0]

NextObs(o, request, t, evals, updated) ==
    LET start == IF o.started THEN o.start ELSE t
        inGeneral == t < start + RATE_LIMIT.GENERAL.WINDOW_MS
        inAuth == t < start + RATE_LIMIT.AUTH.WINDOW_MS
        passedGeneral == \E i \in DOMAIN evals :
                            ~evals[i].isAuth /\ ~evals[i].limited
    IN  [auth |-> IF inAuth /\ updated /\ isAuthRoute(request.pathname)
                  THEN o.auth + 1 ELSE o.auth, general |-> IF inGeneral /\ passedGeneral THEN o.general + 1
                     ELSE o.general,
         started |-> TRUE,
         start |-> start]

LongRequest(request) ==
    /\ Handle(request)
    /\ UNCHANGED <<now, served, limiter, hist, obs, text, polls, pollResult,
                   inflight, admitted, probe, votes, voteResult, authCall,
                   access, form, admin, retry, solo>>

ObservedRequest(request) ==
    /\ Handle(request)
    /\ obs' = NextObs(obs, request, now, response'.evals, response'.updateSession)
    /\ UNCHANGED <<now, served, limiter, hist, text, polls, pollResult,
                   inflight, admitted, probe, votes, voteResult, authCall,
                   access, form, admin, retry, solo>>

\* time passes: by a millisecond, or by the length of the auth window, up to
\* the given number of auth windows
Delays == {1, RATE_LIMIT.AUTH.WINDOW_MS}

Advance(d, windows) ==
    /\ (now + d) \div RATE_LIMIT.AUTH.WINDOW_MS <= windows
    /\ (now + d) % RATE_LIMIT.AUTH.WINDOW_MS <= MaxMillis
    /\ now' = now + d
    /\ UNCHANGED <<rateLimitMap, response, served, limiter, hist, obs, text,
                   polls, pollResult,
                   inflight, admitted, probe, votes, voteResult, authCall,
                   access, form, admin, retry, solo>>

TextNone == [input |-> <<>>, stage |-> "idle", frags |-> 0, output |-> <<>>,
             again |-> <<>>]
LimiterNone == [limited |-> FALSE, windows |-> 0, policy |-> FALSE,
                calls |-> 0, called |-> FALSE, at |-> 0]
PollResultNone == [status |-> 0, op |-> "none", question |-> <<>>,
                   options |-> <<>>, error |-> "", row |-> 0]
ProbeNone == [input |-> <<>>, value |-> FALSE, min |-> 0, max |-> 0,
              fn |-> "none"]
VoteResultNone == [status |-> 0, op |-> "none", error |-> "", pollId |-> <<>>,
                   inserted |-> FALSE]
AuthCallNone == [called |-> FALSE, op |-> "none", error |-> "", data |-> <<>>,
                 given |-> <<>>]
AccessNone == [user |-> "", status |-> 0, op |-> "none", error |-> "",
               id |-> <<>>, queried |-> FALSE]
FormNone == [before |-> <<>>, op |-> "none", options |-> <<>>, rendered |-> <<>>,
             idx |-> 0]
AdminNone == [pc |-> "none"]
RetryNone == [admitted |-> FALSE, isAuth |-> FALSE, waiting |-> FALSE, due |-> 0,
              tested |-> FALSE]

Init ==
    /\ now = 0
    /\ rateLimitMap = <<>>
    /\ response = NoResponse
    /\ served = 0
    /\ limiter = LimiterNone
    /\ hist = <<>>
    /\ obs = ObsNone
    /\ text = TextNone
    /\ polls = <<>>
    /\ pollResult = PollResultNone
    /\ inflight = <<>>
    /\ admitted = <<>>
    /\ probe = ProbeNone
    /\ votes = <<>>
    /\ voteResult = VoteResultNone
    /\ authCall = AuthCallNone
    /\ access = AccessNone
    /\ form = FormNone
    /\ admin = AdminNone
    /\ retry = RetryNone
    /\ solo = <<>>

Next ==
    \/ \E request \in Requests : Request(request)
    \/ \E d \in Delays : Advance(d, ShortWindows)

Spec == Init /\ [][Next]_vars

NextLong ==
    \/ \E request \in LongRequests : LongRequest(request)
    \/ \E d \in Delays : Advance(d, MaxWindows)

SpecLong == Init /\ [][NextLong]_vars

\* a client that keeps sending until the general policy throttles it, and
\* only then waits
BackOff(d) ==
    /\ response.kind = "rejected"
    /\ response.headers["Retry-After"] = "900"
    /\ Advance(d, MaxWindows)

NextBurst ==
    \/ \E request \in LongRequests : ObservedRequest(request)
    \/ \E d \in Delays : BackOff(d)

SpecBurst == Init /\ [][NextBurst]_vars

---------------------------------------------------------------------------
(* isRateLimited called directly, with one client key and one fixed policy *)

LimiterKey == <<"a">>

PolicyWindow(isAuth) ==
    IF isAuth THEN RATE_LIMIT.AUTH.WINDOW_MS ELSE RATE_LIMIT.GENERAL.WINDOW_MS
PolicyMax(isAuth) ==
    IF isAuth THEN RATE_LIMIT.AUTH.MAX_ATTEMPTS
    ELSE RATE_LIMIT.GENERAL.MAX_REQUESTS

\* one call; limiter.calls counts the calls made since the key had no record
\* or the record's resetTime had passed, this call included
Call ==
    LET record == MapGet(rateLimitMap, LimiterKey)
        expired == IF record = Null THEN TRUE ELSE now > record.resetTime
    IN  /\ (IF expired THEN TRUE
            ELSE limiter.calls < PolicyMax(limiter.policy) + MaxExtra)
        /\ \E r \in { isRateLimited(rateLimitMap, LimiterKey, limiter.policy, now) } :
            /\ rateLimitMap' = r.map
            /\ limiter' = [limited |-> r.limited,
                           windows |-> IF expired THEN Min(limiter.windows + 1, 2)
                                       ELSE limiter.windows,
                           policy |-> limiter.policy,
                           calls |-> IF expired THEN 1 ELSE limiter.calls + 1, called |-> TRUE, at |-> now]
        /\ UNCHANGED <<now, response, served, hist, obs, text, polls, pollResult,
                   inflight, admitted, probe, votes, voteResult, authCall,
                   access, form, admin, retry, solo>>

InitLimiter ==
    /\ now = 0
    /\ rateLimitMap = <<>>
    /\ response = NoResponse
    /\ served = 0
    /\ limiter \in { [LimiterNone EXCEPT !.policy = isAuth] : isAuth \in BOOLEAN }
    /\ hist = <<>>
    /\ obs = ObsNone
    /\ text = TextNone
    /\ polls = <<>>
    /\ pollResult = PollResultNone
    /\ inflight = <<>>
    /\ admitted = <<>>
    /\ probe = ProbeNone
    /\ votes = <<>>
    /\ voteResult = VoteResultNone
    /\ authCall = AuthCallNone
    /\ access = AccessNone
    /\ form = FormNone
    /\ admin = AdminNone
    /\ retry = RetryNone
    /\ solo = <<>>

NextLimiter ==
    \/ Call
    \/ \E d \in Delays : Advance(d, MaxWindows)

SpecLimiter == InitLimiter /\ [][NextLimiter]_vars

---------------------------------------------------------------------------
(* Claims about the rate limiter and the middleware.                       *)

\* C1: with one key and one fixed policy (window W, max M), the first M calls
\* of a window are not limited, every further call of the window is limited,
\* and a call that finds no record or an expired record stores count = 1 and
\* resetTime = now + W and is not limited.
C1_FixedWindow ==
    limiter.called =>
        /\ limiter.limited <=> limiter.calls > PolicyMax(limiter.policy)
        /\ limiter.calls = 1 =>
              /\ rateLimitMap[LimiterKey].count = 1
              /\ rateLimitMap[LimiterKey].resetTime
                    = limiter.at + PolicyWindow(limiter.policy)

\* a call beyond the limit was rejected in a window opened by a reset
C1_Witness ==
    /\ limiter.called
    /\ limiter.limited
    /\ limiter.windows = 2
    /\ limiter.calls = PolicyMax(limiter.policy) + 1

\* C2: an evaluation against the auth policy leaves the record the general
\* policy reads for that client as it was, and an evaluation against the
\* general policy leaves the record the auth policy reads as it was.
C2_IndependentWindows ==
    \A i \in DOMAIN response.evals :
        response.evals[i].before = response.evals[i].after

\* C3: a key whose requests are all auth-route requests within one auth
\* window has its first 5 requests admitted and every later one rejected
\* with the authentication rejection.
C3_AuthBurst ==
    LET h == MapGet(hist, response.ip) IN
    (response.kind \in {"next", "redirect", "rejected"} /\ h # Null /\ h.pure) =>
        IF h.n <= RATE_LIMIT.AUTH.MAX_ATTEMPTS
        THEN response.kind # "rejected"
        ELSE /\ response.kind = "rejected"
             /\ response.headers["Retry-After"] = "300"

\* C4: within an interval of the policy's window length, the middleware
\* admits at most twice the policy's maximum.
C4_TwiceMax ==
    /\ obs.general <= 2 * RATE_LIMIT.GENERAL.MAX_REQUESTS
    /\ obs.auth <= 2 * RATE_LIMIT.AUTH.MAX_ATTEMPTS

\* the header value the default table is to render to
ExpectedCSP ==
    Join(<< <<"d","e","f","a","u","l","t","-","s","r","c">>
               \o <<" ">> \o <<"'","s","e","l","f","'">>,
            <<"s","c","r","i","p","t","-","s","r","c">>
               \o <<" ">> \o <<"'","s","e","l","f","'">>
               \o <<" ">> \o <<"'","u","n","s","a","f","e","-","i","n","l","i","n","e","'">>
               \o <<" ">> \o <<"'","u","n","s","a","f","e","-","e","v","a","l","'">>,
            <<"s","t","y","l","e","-","s","r","c">>
               \o <<" ">> \o <<"'","s","e","l","f","'">>
               \o <<" ">> \o <<"'","u","n","s","a","f","e","-","i","n","l","i","n","e","'">>,
            <<"i","m","g","-","s","r","c">>
               \o <<" ">> \o <<"'","s","e","l","f","'">>
               \o <<" ">> \o <<"d","a","t","a",":">>
               \o <<" ">> \o <<"h","t","t","p","s",":">>,
            <<"f","o","n","t","-","s","r","c">>
               \o <<" ">> \o <<"'","s","e","l","f","'">>,
            <<"c","o","n","n","e","c","t","-","s","r","c">>
               \o <<" ">> \o <<"'","s","e","l","f","'">>
               \o <<" ">> \o <<"h","t","t","p","s",":","/","/","*",".","s","u","p",
                                "a","b","a","s","e",".","c","o">>,
            <<"f","r","a","m","e","-","a","n","c","e","s","t","o","r","s">>
               \o <<" ">> \o <<"'","n","o","n","e","'">> >>,
         <<";", " ">>)

\* C5: the Content-Security-Policy value is one clause per directive in table
\* order, each key in its kebab-case wire name followed by its sources: it
\* begins with "default-src 'self';" and ends with "frame-ancestors 'none'".
C5_ExactCSP ==
    "Content-Security-Policy" \in DOMAIN response.headers =>
        LET csp == response.headers["Content-Security-Policy"] IN
        /\ startsWith(csp, <<"d","e","f","a","u","l","t","-","s","r","c"," ",
                             "'","s","e","l","f","'",";">>)
        /\ endsWith(csp, <<"f","r","a","m","e","-","a","n","c","e","s","t","o",
                           "r","s"," ","'","n","o","n","e","'">>)
        /\ csp = ExpectedCSP

\* C9: every response of the middleware carries the Content-Security-Policy
\* header and the five static security headers with their configured values.
C9_HeadersOnEveryResponse ==
    response.kind \in {"next", "redirect", "rejected"} =>
        /\ "Content-Security-Policy" \in DOMAIN response.headers
        /\ \A i \in DOMAIN SECURITY_CONFIG.SECURITY_HEADERS :
              LET entry == SECURITY_CONFIG.SECURITY_HEADERS[i] IN
              /\ entry[1] \in DOMAIN response.headers
              /\ response.headers[entry[1]] = entry[2]

\* C10: the response is 429 with a plain-text body exactly when one of the
\* request's rate-limit evaluations returned limited; Retry-After is 300 for
\* a rejection by the auth policy and 900 for one by the general policy, and
\* a rejected request is not passed to updateSession.
C10_Rejection ==
    response.kind \in {"next", "redirect", "rejected"} =>
        LET limited == { i \in DOMAIN response.evals : response.evals[i].limited }
            plain429 == /\ response.status = 429
                        /\ "Content-Type" \in DOMAIN response.headers
                        /\ response.headers["Content-Type"] = "text/plain"
        IN  /\ plain429 <=> limited # {}
            /\ \A i \in limited :
                  /\ "Retry-After" \in DOMAIN response.headers
                  /\ response.headers["Retry-After"]
                        = (IF response.evals[i].isAuth THEN "300" ELSE "900")
                  /\ ~response.updateSession
            /\ limited = {} => response.updateSession

\* the general policy rejected a request
C10_Witness ==
    /\ response.status = 429
    /\ response.headers["Retry-After"] = "900"
    /\ \E i \in DOMAIN response.evals :
          ~response.evals[i].isAuth /\ response.evals[i].limited

---------------------------------------------------------------------------
(* sanitizeInput applied to typed text, and applied again to its output    *)

\* the pieces a text is typed from
Fragments == { <<"<","s","c","r","i","p","t",">">>,
               <<"<","/","s","c","r","i","p","t",">">>,
               <<"j","a","v","a">>,
               <<"j","a","v","a","s","c","r","i","p","t",":">>,
               <<"s","c","r","i","p","t",":">>,
               <<"d","a","t","a",":">>,
               <<"o","n","l","o","a","d","=">>,
               <<"x">>,
               <<" ">> }

Type(fragment) ==
    /\ text.stage = "idle"
    /\ text.frags < MaxFrags
    /\ text' = [text EXCEPT !.frags = text.frags + 1,
                            !.input = text.input \o fragment]
    /\ UNCHANGED <<now, rateLimitMap, response, served, limiter, hist, obs,
                   polls, pollResult,
                   inflight, admitted, probe, votes, voteResult, authCall,
                   access, form, admin, retry, solo>>

Sanitize ==
    /\ text.stage = "idle"
    /\ text' = [text EXCEPT !.stage = "sanitized",
                            !.output = sanitizeInput(text.input)]
    /\ UNCHANGED <<now, rateLimitMap, response, served, limiter, hist, obs,
                   polls, pollResult,
                   inflight, admitted, probe, votes, voteResult, authCall,
                   access, form, admin, retry, solo>>

SanitizeAgain ==
    /\ text.stage = "sanitized"
    /\ text' = [text EXCEPT !.stage = "twice",
                            !.again = sanitizeInput(text.output)]
    /\ UNCHANGED <<now, rateLimitMap, response, served, limiter, hist, obs,
                   polls, pollResult,
                   inflight, admitted, probe, votes, voteResult, authCall,
                   access, form, admin, retry, solo>>

NextSanitize ==
    \/ \E fragment \in Fragments : Type(fragment)
    \/ Sanitize
    \/ SanitizeAgain

SpecSanitize == Init /\ [][NextSanitize]_vars

\* the pattern matches somewhere in s
HasMatch(pattern, s) == \E i \in 1..Len(s) : MatchEnd(pattern, s, i) > 0

\* the script block, iframe block, javascript: and inline handler patterns
NamedPatterns == { DANGEROUS_PATTERNS[k] : k \in {1, 2, 5, 6} }

\* C6: sanitizing the output of sanitizeInput again returns it unchanged.
C6_Idempotent ==
    text.stage = "twice" => text.again = text.output

\* C7: when the input contains a script block, an iframe block, "javascript:"
\* or an inline "on<word>=" (any letter case), the output contains none of them.
C7_NoneLeft ==
    (/\ text.stage \in {"sanitized", "twice"}
     /\ \E pattern \in NamedPatterns : HasMatch(pattern, text.input))
        => \A pattern \in NamedPatterns : ~HasMatch(pattern, text.output)

---------------------------------------------------------------------------
(* src/app/lib/actions/poll-actions.ts and the REST route handlers:        *)
(* createPoll / POST /api/polls, updatePoll / PUT /api/polls/[id]          *)

\* formData.getAll("options").filter(Boolean): the empty strings are dropped
FilterBoolean(options) == SelectSeq(options, LAMBDA o : o # <<>>)

\* options.map(option => SecurityUtils.sanitizeInput(option))
SanitizeAll(options) == [i \in DOMAIN options |-> sanitizeInput(options[i])]

\* the outcome of a poll operation: the table it leaves, the error it returns
\* ("" for null), the HTTP status of a route handler (0 for a server action),
\* and the row it wrote (0 for none)
Failed(table, message, status) ==
    [status |-> status, error |-> message, row |-> 0, table |-> table]

\* supabase.from("polls").insert([{user_id, question, options}])
Insert(table, id, user, question, options) ==
    Append(table, [question |-> question, options |-> options, id |-> id,
                   user_id |-> user])

\* supabase.from("polls").update({question, options})
\*     .eq("id", pollId).eq("user_id", user)
\* the update filtered by the id alone
Matches_anyUser(table, pollId, user) ==
    { i \in DOMAIN table : table[i].id = pollId }

Matches(table, pollId, user) ==
    { i \in DOMAIN table : table[i].id = pollId /\ table[i].user_id = user }

Update(table, pollId, user, question, options) ==
    [i \in DOMAIN table |->
        IF i \in Matches(table, pollId, user)
        THEN [table[i] EXCEPT !.question = question, !.options = options]
        ELSE table[i]]

FirstMatch(table, pollId, user) ==
    IF Matches(table, pollId, user) = {} THEN 0
    ELSE CHOOSE i \in Matches(table, pollId, user) :
            \A j \in Matches(table, pollId, user) : i <= j

\* createPoll with the insert storing the question as submitted
createPoll_raw(table, formData, session, dbError, id) ==
    LET question == formData.question
        options == FilterBoolean(formData.options)
        sanitizedQuestion == sanitizeInput(question)
        sanitizedOptions == SanitizeAll(options)
    IN  IF question = <<>> \/ Len(options) < 2
        THEN Failed(table, "Please provide a question and at least two options.", 0)
        ELSE IF ~validateLength(sanitizedQuestion, INPUT_LIMITS.QUESTION.MIN,
                                INPUT_LIMITS.QUESTION.MAX)
        THEN Failed(table, "Question must be between 3 and 500 characters.", 0)
        ELSE IF \E i \in DOMAIN sanitizedOptions :
                    ~validateLength(sanitizedOptions[i], INPUT_LIMITS.OPTION.MIN,
                                    INPUT_LIMITS.OPTION.MAX)
        THEN Failed(table, "Options must be between 1 and 200 characters.", 0)
        ELSE IF session.error THEN Failed(table, "userError.message", 0)
        ELSE IF session.user = ""
        THEN Failed(table, "You must be logged in to create a poll.", 0)
        ELSE IF dbError THEN Failed(table, "error.message", 0)
        ELSE [status |-> 0,
              error |-> "", row |-> Len(table) + 1, table |-> Insert(table, id, session.user, question,
                               sanitizedOptions)]

\* poll-actions.ts: createPoll(formData).  A missing question field (null)
\* takes the same branch as the empty string.
createPoll(table, formData, session, dbError, id) ==
    LET question == formData.question
        options == FilterBoolean(formData.options)
        sanitizedQuestion == sanitizeInput(question)
        sanitizedOptions == SanitizeAll(options)
    IN  IF question = <<>> \/ Len(options) < 2
        THEN Failed(table, "Please provide a question and at least two options.", 0)
        ELSE IF ~validateLength(sanitizedQuestion, INPUT_LIMITS.QUESTION.MIN,
                                INPUT_LIMITS.QUESTION.MAX)
        THEN Failed(table, "Question must be between 3 and 500 characters.", 0)
        ELSE IF \E i \in DOMAIN sanitizedOptions :
                    ~validateLength(sanitizedOptions[i], INPUT_LIMITS.OPTION.MIN,
                                    INPUT_LIMITS.OPTION.MAX)
        THEN Failed(table, "Options must be between 1 and 200 characters.", 0)
        ELSE IF session.error THEN Failed(table, "userError.message", 0)
        ELSE IF session.user = ""
        THEN Failed(table, "You must be logged in to create a poll.", 0)
        ELSE IF dbError THEN Failed(table, "error.message", 0)
        ELSE [status |-> 0,
              error |-> "", row |-> Len(table) + 1, table |-> Insert(table, id, session.user, sanitizedQuestion,
                               sanitizedOptions)]

\* app/api/polls/route.ts: POST
POST(table, formData, session, dbError, id) ==
    LET question == formData.question
        options == FilterBoolean(formData.options)
        sanitizedQuestion == sanitizeInput(question)
        sanitizedOptions == SanitizeAll(options)
    IN  IF question = <<>> \/ Len(options) < 2
        THEN Failed(table, "Please provide a question and at least two options.", 400)
        ELSE IF ~validateLength(sanitizedQuestion, INPUT_LIMITS.QUESTION.MIN,
                                INPUT_LIMITS.QUESTION.MAX)
        THEN Failed(table, "Question must be between 3 and 500 characters.", 400)
        ELSE IF \E i \in DOMAIN sanitizedOptions :
                    ~validateLength(sanitizedOptions[i], INPUT_LIMITS.OPTION.MIN,
                                    INPUT_LIMITS.OPTION.MAX)
        THEN Failed(table, "Options must be between 1 and 200 characters.", 400)
        ELSE IF session.error THEN Failed(table, "userError.message", 500)
        ELSE IF session.user = ""
        THEN Failed(table, "You must be logged in to create a poll.", 401)
        ELSE IF dbError THEN Failed(table, "error.message", 500)
        ELSE [status |-> 201,
              error |-> "", row |-> Len(table) + 1, table |-> Insert(table, id, session.user, sanitizedQuestion,
                               sanitizedOptions)]

\* updatePoll without the two length checks
updatePoll_unchecked(table, pollId, formData, session, dbError) ==
    LET question == formData.question
        options == FilterBoolean(formData.options)
        sanitizedQuestion == sanitizeInput(question)
        sanitizedOptions == SanitizeAll(options)
    IN  IF question = <<>> \/ Len(options) < 2
        THEN Failed(table, "Please provide a question and at least two options.", 0)
        ELSE IF session.error THEN Failed(table, "userError.message", 0)
        ELSE IF session.user = ""
        THEN Failed(table, "You must be logged in to update a poll.", 0)
        ELSE IF dbError THEN Failed(table, "error.message", 0)
        ELSE [status |-> 0,
              error |-> "", row |-> FirstMatch(table, pollId, session.user),
              table |-> Update(table, pollId, session.user, sanitizedQuestion,
                               sanitizedOptions)]

\* poll-actions.ts: updatePoll(pollId, formData)
updatePoll(table, pollId, formData, session, dbError) ==
    LET question == formData.question
        options == FilterBoolean(formData.options)
        sanitizedQuestion == sanitizeInput(question)
        sanitizedOptions == SanitizeAll(options)
    IN  IF question = <<>> \/ Len(options) < 2
        THEN Failed(table, "Please provide a question and at least two options.", 0)
        ELSE IF ~validateLength(sanitizedQuestion, INPUT_LIMITS.QUESTION.MIN,
                                INPUT_LIMITS.QUESTION.MAX)
        THEN Failed(table, "Question must be between 3 and 500 characters.", 0)
        ELSE IF \E i \in DOMAIN sanitizedOptions :
                    ~validateLength(sanitizedOptions[i], INPUT_LIMITS.OPTION.MIN,
                                    INPUT_LIMITS.OPTION.MAX)
        THEN Failed(table, "Options must be between 1 and 200 characters.", 0)
        ELSE IF session.error THEN Failed(table, "userError.message", 0)
        ELSE IF session.user = ""
        THEN Failed(table, "You must be logged in to update a poll.", 0)
        ELSE IF dbError THEN Failed(table, "error.message", 0)
        ELSE [status |-> 0,
              error |-> "", row |-> FirstMatch(table, pollId, session.user),
              table |-> Update(table, pollId, session.user, sanitizedQuestion,
                               sanitizedOptions)]

\* app/api/polls/[id]/route.ts: PUT
PUT(table, pollId, formData, session, dbError) ==
    LET question == formData.question
        options == FilterBoolean(formData.options)
        sanitizedQuestion == sanitizeInput(question)
        sanitizedOptions == SanitizeAll(options)
    IN  IF question = <<>> \/ Len(options) < 2
        THEN Failed(table, "Please provide a question and at least two options.", 400)
        ELSE IF ~validateLength(sanitizedQuestion, INPUT_LIMITS.QUESTION.MIN,
                                INPUT_LIMITS.QUESTION.MAX)
        THEN Failed(table, "Question must be between 3 and 500 characters.", 400)
        ELSE IF \E i \in DOMAIN sanitizedOptions :
                    ~validateLength(sanitizedOptions[i], INPUT_LIMITS.OPTION.MIN,
                                    INPUT_LIMITS.OPTION.MAX)
        THEN Failed(table, "Options must be between 1 and 200 characters.", 400)
        ELSE IF session.error THEN Failed(table, "userError.message", 500)
        ELSE IF session.user = ""
        THEN Failed(table, "You must be logged in to update a poll.", 401)
        ELSE IF dbError THEN Failed(table, "error.message", 500)
        ELSE [status |-> 200,
              error |-> "", row |-> FirstMatch(table, pollId, session.user),
              table |-> Update(table, pollId, session.user, sanitizedQuestion,
                               sanitizedOptions)]

---------------------------------------------------------------------------
(* Poll submissions.                                                       *)

ExampleQuestion ==
    <<"<","s","c","r","i","p","t",">","a","l","e","r","t","(","1",")",
      "<","/","s","c","r","i","p","t",">","P","i","c","k"," ","o","n","e">>

\* the forms submitted: question and options
Forms == {
    [question |-> <<>>,
     options  |-> << <<"a">>, <<"b">> >>],
    [question |-> <<"d","a","t","a",":","a","b">>,
     options  |-> << <<"a">>, <<"b">> >>],
    [question |-> ExampleQuestion,
     options  |-> << <<"a">>, <<"b">> >>],
    [question |-> <<" ","d","a","t","a",":","a","b","c">>,
     options  |-> << <<"a">>, <<>> >>],
    [question |-> <<" ","d","a","t","a",":","a","b","c">>,
     options  |-> << <<"o","n","l","o","a","d","=","x">>, <<>>, <<"b"," ">> >>],
    [question |-> <<" ","d","a","t","a",":","a","b","c">>,
     options  |-> << <<"j","a","v","a","s","c","r","i","p","t",":">>, <<"b">> >>] }

\* supabase.auth.getUser(): a user id, no user (""), or an error
Sessions == { [user |-> "u1", error |-> FALSE],
              [user |-> "u2", error |-> FALSE],
              [user |-> "",   error |-> FALSE],
              [user |-> "",   error |-> TRUE] }

\* the id the database gives the next row, and the ids callers send
NewId(table) == <<"p", DigitChars[Len(table) + 2]>>
PollIds == { <<"p","1">>, <<"p","2">> }

Record(op, formData, outcome) ==
    /\ polls' = outcome.table
    /\ pollResult' = [status |-> outcome.status, op |-> op,
                      question |-> formData.question, options |-> formData.options,
                      error |-> outcome.error, row |-> outcome.row]
    /\ UNCHANGED <<now, rateLimitMap, response, served, limiter, hist, obs, text,
                   inflight, admitted, probe, votes, voteResult, authCall,
                   access, form, admin, retry, solo>>

\* an insert into a full table fails
CreatePoll(formData, session, dbError) ==
    /\ Len(polls) >= MaxPolls => dbError
    /\ \E outcome \in { createPoll(polls, formData, session, dbError, NewId(polls)) } :
          Record("createPoll", formData, outcome)

PostPolls(formData, session, dbError) ==
    /\ Len(polls) >= MaxPolls => dbError
    /\ \E outcome \in { POST(polls, formData, session, dbError, NewId(polls)) } :
          Record("POST", formData, outcome)

UpdatePoll(pollId, formData, session, dbError) ==
    \E outcome \in { updatePoll(polls, pollId, formData, session, dbError) } :
        Record("updatePoll", formData, outcome)

PutPoll(pollId, formData, session, dbError) ==
    \E outcome \in { PUT(polls, pollId, formData, session, dbError) } :
        Record("PUT", formData, outcome)

NextPolls ==
    \E formData \in Forms, session \in Sessions, dbError \in BOOLEAN :
        \/ CreatePoll(formData, session, dbError)
        \/ PostPolls(formData, session, dbError)
        \/ \E pollId \in PollIds : UpdatePoll(pollId, formData, session, dbError)
        \/ \E pollId \in PollIds : PutPoll(pollId, formData, session, dbError)

SpecPolls == Init /\ [][NextPolls]_vars

\* C8: a poll written by createPoll, POST /api/polls, updatePoll or
\* PUT /api/polls/[id] holds sanitizeInput of the submitted question, and its
\* options are sanitizeInput of the submitted (non-empty) options, in order;
\* "<script>alert(1)</script>Pick one" is stored as "Pick one".
C8_StoredSanitized ==
    (pollResult.op # "none" /\ pollResult.row > 0) =>
        LET stored == polls[pollResult.row]
            submitted == FilterBoolean(pollResult.options)
        IN  /\ stored.question = sanitizeInput(pollResult.question)
            /\ Len(stored.options) = Len(submitted)
            /\ \A i \in DOMAIN submitted :
                  stored.options[i] = sanitizeInput(submitted[i])
            /\ pollResult.question = ExampleQuestion =>
                  stored.question = <<"P","i","c","k"," ","o","n","e">>

\* an update wrote the example question over a stored poll
C8_Witness ==
    /\ pollResult.op \in {"updatePoll", "PUT"}
    /\ pollResult.row > 0
    /\ pollResult.question = ExampleQuestion
    /\ polls[pollResult.row].question = <<"P","i","c","k"," ","o","n","e">>

---------------------------------------------------------------------------
(* Which policy a request is evaluated against.                            *)

\* C11: every request whose path starts with /login, /register or /auth is
\* evaluated against the auth policy before it is served, and every request
\* to any other path is evaluated against the general policy only.
C11_RoutePolicy ==
    response.kind # "none" =>
        IF isAuthRoute(response.pathname)
        THEN \E i \in DOMAIN response.evals : response.evals[i].isAuth
        ELSE /\ Len(response.evals) = 1
             /\ ~response.evals[1].isAuth

---------------------------------------------------------------------------
(* Requests to a server whose clients have nearly used their general       *)
(* budget.                                                                 *)

MaxBusy == 4     \* requests per run on the busy server

\* the record of a client after GENERAL.MAX_REQUESTS - 2 requests to /polls
\* at time 0
BusyRecord == [resetTime |-> RATE_LIMIT.GENERAL.WINDOW_MS,
               count |-> RATE_LIMIT.GENERAL.MAX_REQUESTS - 2]

BusyKeys == { <<"a">>, <<"u","n","k","n","o","w","n">> }

BusyRequests ==
    { [xForwardedFor |-> c.xForwardedFor, xRealIp |-> c.xRealIp,
       pathname |-> p, user |-> TRUE] :
        c \in { [xForwardedFor |-> Header(<<"a">>), xRealIp |-> Absent],
                [xForwardedFor |-> Absent, xRealIp |-> Absent] },
        p \in { <<"/","a","u","t","h","/","c","b">>, <<"/","p","o","l","l","s">> } }

BusyRequest(request) ==
    /\ served < MaxBusy
    /\ served' = served + 1
    /\ Handle(request)
    /\ UNCHANGED <<now, limiter, hist, obs, text, polls, pollResult,
                   inflight, admitted, probe, votes, voteResult, authCall,
                   access, form, admin, retry, solo>>

InitBusy ==
    /\ now = 0
    /\ rateLimitMap \in { [k \in keys |-> BusyRecord] : keys \in SUBSET BusyKeys }
    /\ response = NoResponse
    /\ served = 0
    /\ limiter = LimiterNone
    /\ hist = <<>>
    /\ obs = ObsNone
    /\ text = TextNone
    /\ polls = <<>>
    /\ pollResult = PollResultNone
    /\ inflight = <<>>
    /\ admitted = <<>>
    /\ probe = ProbeNone
    /\ votes = <<>>
    /\ voteResult = VoteResultNone
    /\ authCall = AuthCallNone
    /\ access = AccessNone
    /\ form = FormNone
    /\ admin = AdminNone
    /\ retry = RetryNone
    /\ solo = <<>>

NextBusy ==
    \/ \E request \in BusyRequests : BusyRequest(request)
    \/ \E d \in Delays : Advance(d, ShortWindows)

SpecBusy == InitBusy /\ [][NextBusy]_vars

\* C12: when an evaluation rejects a request, the record it read and every
\* other record of the map are left as they were; a request rejected by the
\* auth policy leaves the whole map as it was (no general budget is used).
C12_RejectionLeavesMap ==
    [][(served' = served + 1 /\ response'.kind = "rejected") =>
        /\ \A i \in DOMAIN response'.evals :
              response'.evals[i].limited =>
                  response'.evals[i].before = response'.evals[i].after
        /\ DOMAIN rateLimitMap' = DOMAIN rateLimitMap
        /\ \A k \in DOMAIN rateLimitMap :
              k # response'.ip => rateLimitMap'[k] = rateLimitMap[k]
        /\ response'.headers["Retry-After"] = "300" =>
              rateLimitMap' = rateLimitMap]_vars

\* the general policy rejected a request while another client had a record
C12_Witness ==
    /\ response.kind = "rejected"
    /\ response.headers["Retry-After"] = "900"
    /\ rateLimitMap[response.ip].count = RATE_LIMIT.GENERAL.MAX_REQUESTS
    /\ Cardinality(DOMAIN rateLimitMap) = 2

---------------------------------------------------------------------------
(* Middleware invocations in flight at the same time, in one process.      *)
(* An invocation runs from its first statement to the await of             *)
(* updateSession (line 62) without yielding; other invocations run only    *)
(* while it waits there.                                                   *)

MaxInflight == 2    \* invocations in flight at once
MaxArrivals == 4    \* requests per run

Slots == 1..MaxInflight

\* the requests of one signed-in client
ConcurrentRequests == { request \in LongRequests : request.user }

SlotIdle == [request |-> <<>>, result |-> <<>>, pc |-> "idle", seen |-> <<>>]

\* the evaluations admitted since the key's record was created, and when and
\* by which policy it was created
AdmittedNone == [auth |-> 0, general |-> 0, policy |-> FALSE, created |-> 0]

RECURSIVE NextAdmitted(_, _, _)
NextAdmitted(entry, evals, t) ==
    IF evals = <<>> THEN entry
    ELSE LET ev == Head(evals)
             creates == IF ev.before = Null THEN TRUE
                        ELSE t > ev.before.resetTime
             base == IF creates
                     THEN [AdmittedNone EXCEPT !.created = t, !.policy = ev.isAuth]
                     ELSE entry
             counted == IF ev.limited THEN base
                        ELSE IF ev.isAuth
                        THEN [base EXCEPT !.auth = base.auth + 1]
                        ELSE [base EXCEPT !.general = base.general + 1]
         IN  NextAdmitted(counted, Tail(evals), t)

\* the map an invocation reads when it runs: the map as it was when the
\* request arrived
MapAtCheck_stale(p) == inflight[p].seen

\* the map an invocation reads when it runs: rateLimitMap as it is then
MapAtCheck(p) == rateLimitMap

\* a request arrives and its invocation is scheduled
Arrive(p, request) ==
    /\ served < MaxArrivals
    /\ inflight[p].pc = "idle"
    /\ served' = served + 1
    /\ inflight' = [inflight EXCEPT ![p] =
                       [request |-> request, result |-> <<>>,
                        pc |-> "queued", seen |-> rateLimitMap]]
    /\ UNCHANGED <<now, rateLimitMap, response, limiter, hist, obs, text, polls,
                   pollResult, admitted, probe, votes, voteResult, authCall,
                   access, form, admin, retry, solo>>

Publish(request, r) ==
    [kind |-> r.response.kind, ip |-> ClientIp(request),
     pathname |-> request.pathname, updateSession |-> r.updateSession,
     status |-> r.response.status, body |-> r.response.body,
     headers |-> r.response.headers, evals |-> r.evals]

\* lines 30-62: the invocation runs up to the rejection it returns or to the
\* await of updateSession
Run(p) ==
    /\ inflight[p].pc = "queued"
    /\ LET request == inflight[p].request
           ip == ClientIp(request)
       IN  \E r \in { middleware(MapAtCheck(p), request, now) } :
             /\ rateLimitMap' = r.map
             /\ admitted' = MapSet(admitted, ip,
                                   NextAdmitted(MapGet(admitted, ip), r.evals, now))
             /\ IF r.response.kind = "rejected"
                THEN /\ response' = Publish(request, r)
                     /\ inflight' = [inflight EXCEPT ![p] = SlotIdle]
                ELSE /\ response' = response
                     /\ inflight' = [inflight EXCEPT ![p] =
                                        [request |-> request, result |-> r,
                                         pc |-> "awaiting", seen |-> <<>>]]
    /\ UNCHANGED <<now, served, limiter, hist, obs, text, polls, pollResult,
                   probe, votes, voteResult, authCall,
                   access, form, admin, retry, solo>>

\* lines 62-72: updateSession has answered; the headers are set and the
\* response is returned
Finish(p) ==
    /\ inflight[p].pc = "awaiting"
    /\ response' = Publish(inflight[p].request, inflight[p].result)
    /\ inflight' = [inflight EXCEPT ![p] = SlotIdle]
    /\ UNCHANGED <<now, rateLimitMap, served, limiter, hist, obs, text, polls,
                   pollResult, admitted, probe, votes, voteResult, authCall,
                   access, form, admin, retry, solo>>

InitConcurrent ==
    /\ now = 0
    /\ \E busy \in BOOLEAN :
          /\ rateLimitMap = IF busy THEN (LimiterKey :> BusyRecord) ELSE <<>>
          /\ admitted = IF busy
                        THEN (LimiterKey :>
                                [AdmittedNone EXCEPT !.general = BusyRecord.count])
                        ELSE <<>>
    /\ response = NoResponse
    /\ served = 0
    /\ limiter = LimiterNone
    /\ hist = <<>>
    /\ obs = ObsNone
    /\ text = TextNone
    /\ polls = <<>>
    /\ pollResult = PollResultNone
    /\ inflight = [p \in Slots |-> SlotIdle]
    /\ probe = ProbeNone
    /\ votes = <<>>
    /\ voteResult = VoteResultNone
    /\ authCall = AuthCallNone
    /\ access = AccessNone
    /\ form = FormNone
    /\ admin = AdminNone
    /\ retry = RetryNone
    /\ solo = <<>>

NextConcurrent ==
    \/ \E p \in Slots, request \in ConcurrentRequests : Arrive(p, request)
    \/ \E p \in Slots : Run(p)
    \/ \E p \in Slots : Finish(p)
    \/ \E d \in Delays : Advance(d, ShortWindows)

SpecConcurrent == InitConcurrent /\ [][NextConcurrent]_vars

\* C13: every rate-limit record has count >= 1, and its resetTime is the time
\* of its creation (or last reset) plus the window of the policy whose
\* evaluation created it, hence strictly later than that time.
C13_RecordInvariant ==
    \A k \in DOMAIN rateLimitMap :
        /\ k \in DOMAIN admitted
        /\ rateLimitMap[k].count >= 1
        /\ rateLimitMap[k].resetTime
              = admitted[k].created + PolicyWindow(admitted[k].policy)
        /\ rateLimitMap[k].resetTime > admitted[k].created

\* a record that expired was created anew by a general evaluation and has
\* been counted up since
C13_Witness ==
    \E k \in DOMAIN rateLimitMap :
        /\ k \in DOMAIN admitted
        /\ admitted[k].created > 0
        /\ ~admitted[k].policy
        /\ rateLimitMap[k].count > 1
        /\ now > admitted[k].created

\* C14: in one process the rate-limit evaluations of one invocation are never
\* interleaved with another invocation's: for one key and one policy no more
\* than the policy's maximum is admitted between a record's creation and its
\* resetTime, and every admitted evaluation is counted in the record (no
\* update of count is lost).
C14_NoLostUpdate ==
    \A k \in DOMAIN rateLimitMap :
        /\ k \in DOMAIN admitted
        /\ admitted[k].auth <= RATE_LIMIT.AUTH.MAX_ATTEMPTS
        /\ admitted[k].general <= RATE_LIMIT.GENERAL.MAX_REQUESTS
        /\ rateLimitMap[k].count = admitted[k].auth + admitted[k].general

\* every slot holds an invocation waiting for updateSession, and the key's
\* record has admitted the general maximum
C14_Witness ==
    /\ inflight # <<>>
    /\ \A p \in Slots : inflight[p].pc = "awaiting"
    /\ LimiterKey \in DOMAIN admitted
    /\ admitted[LimiterKey].general = RATE_LIMIT.GENERAL.MAX_REQUESTS

---------------------------------------------------------------------------
(* src/lib/security.ts: the validators, and the values they are given.     *)

\* a JavaScript value as the validators tell values apart: by typeof, and for
\* a number by whether it is finite and by its whole part and tenths
Str(chars) == [chars |-> chars, type |-> "string",
               finite |-> FALSE, whole |-> 0, tenths |-> 0]
Num(whole, tenths) == [chars |-> <<>>, type |-> "number",
                       finite |-> TRUE, whole |-> whole, tenths |-> tenths]
NaN == [chars |-> <<>>, type |-> "number",
        finite |-> FALSE, whole |-> 0, tenths |-> 0]
Undefined == [chars |-> <<>>, type |-> "undefined",
              finite |-> FALSE, whole |-> 0, tenths |-> 0]
NullValue == [chars |-> <<>>, type |-> "object",
              finite |-> FALSE, whole |-> 0, tenths |-> 0]

\* the value as the string functions of the model take it
Text(v) == IF v.type = "string" THEN v.chars ELSE NotAString

\* /^[^\s@]+@[^\s@]+\.[^\s@]+$/.test(s)
NoSpaceNoAt(s, from, to) ==
    \A k \in from..to : ~IsSpace(s[k]) /\ s[k] # "@"

emailRegex(s) ==
    \E i \in 2..Len(s) :
        /\ s[i] = "@"
        /\ NoSpaceNoAt(s, 1, i - 1)
        /\ \E j \in (i + 2)..(Len(s) - 1) :
              /\ s[j] = "."
              /\ NoSpaceNoAt(s, i + 1, j - 1)
              /\ NoSpaceNoAt(s, j + 1, Len(s))

\* isValidEmail with the test made on the value as given
isValidEmail_untrimmed(email) ==
    IF ~IsString(email) THEN FALSE
    ELSE emailRegex(email)

\* SecurityUtils.isValidEmail
isValidEmail(email) ==
    IF ~IsString(email) THEN FALSE
    ELSE emailRegex(trim(email))

PASSWORD_REQUIREMENTS ==
    [MIN_LENGTH |-> 8, REQUIRE_UPPERCASE |-> TRUE, REQUIRE_LOWERCASE |-> TRUE,
     REQUIRE_NUMBER |-> TRUE,
     ALLOWED_SPECIAL_CHARS |-> <<"@","$","!","%","*","?","&">>]

\* /(?=.*[class])/.test(s): from some position, a character of the class
\* lies ahead with no line terminator before it ('.' matches none)
LineTerminators == {"\n", "\r"}

LooksAhead(s, class) ==
    \E p \in 1..Len(s) : \E q \in p..Len(s) :
        /\ s[q] \in class
        /\ \A k \in p..(q - 1) : s[k] \notin LineTerminators

\* isStrongPassword without the digit requirement
isStrongPassword_noDigit(password) ==
    IF ~IsString(password) THEN FALSE
    ELSE IF Len(password) < PASSWORD_REQUIREMENTS.MIN_LENGTH THEN FALSE
    ELSE IF PASSWORD_REQUIREMENTS.REQUIRE_UPPERCASE
            /\ ~LooksAhead(password, Range(UpperChars)) THEN FALSE
    ELSE IF PASSWORD_REQUIREMENTS.REQUIRE_LOWERCASE
            /\ ~LooksAhead(password, Range(LowerChars)) THEN FALSE
    ELSE TRUE

\* SecurityUtils.isStrongPassword
isStrongPassword(password) ==
    IF ~IsString(password) THEN FALSE
    ELSE IF Len(password) < PASSWORD_REQUIREMENTS.MIN_LENGTH THEN FALSE
    ELSE IF PASSWORD_REQUIREMENTS.REQUIRE_UPPERCASE
            /\ ~LooksAhead(password, Range(UpperChars)) THEN FALSE
    ELSE IF PASSWORD_REQUIREMENTS.REQUIRE_LOWERCASE
            /\ ~LooksAhead(password, Range(LowerChars)) THEN FALSE
    ELSE IF PASSWORD_REQUIREMENTS.REQUIRE_NUMBER
            /\ ~LooksAhead(password, Range(DigitChars)) THEN FALSE
    ELSE TRUE

\* /^[0-9a-f]{8}-[0-9a-f]{4}-[1-5][0-9a-f]{3}-[89ab][0-9a-f]{3}-[0-9a-f]{12}$/i
HexSet == Range(DigitChars) \cup {"a","b","c","d","e","f"}

uuidRegex(s) ==
    /\ Len(s) = 36
    /\ \A k \in 1..36 :
          LET c == toLowerCase(s[k]) IN
          IF k \in {9, 14, 19, 24} THEN c = "-"
          ELSE IF k = 15 THEN c \in {"1","2","3","4","5"}
          ELSE IF k = 20 THEN c \in {"8","9","a","b"}
          ELSE c \in HexSet

\* SecurityUtils.isValidUUID
isValidUUID(uuid) ==
    IF ~IsString(uuid) THEN FALSE
    ELSE uuidRegex(uuid)

\* Number.isInteger
NumberIsInteger(v) == v.type = "number" /\ v.finite /\ v.tenths = 0

\* isValidOptionIndex with the upper bound included
isValidOptionIndex_inclusive(index, maxOptions) ==
    IF index.type # "number" \/ ~NumberIsInteger(index) THEN FALSE
    ELSE index.whole >= 0 /\ index.whole <= maxOptions

\* SecurityUtils.isValidOptionIndex
isValidOptionIndex(index, maxOptions) ==
    IF index.type # "number" \/ ~NumberIsInteger(index) THEN FALSE
    ELSE index.whole >= 0 /\ index.whole < maxOptions

---------------------------------------------------------------------------
(* One call of a validator or of the sanitizer on one value.               *)

MaxEmailLen == 6    \* characters of a candidate e-mail address
MaxPieces   == 3    \* pieces concatenated into a candidate password

EmailChars == {"a", "@", ".", " "}

EmailTexts == UNION { [1..n -> EmailChars] : n \in 0..MaxEmailLen }

PasswordPieces == { <<"A","b","c","d">>, <<"e","f","g","1">>, <<"a","b","c","d">>,
                    <<"A","B","C","D">>, <<"1","2","3","4">>, <<"\n">>, <<" ">>,
                    <<"A","b","c","d","e","f","g","1">> }

RECURSIVE Pieces(_)
Pieces(n) ==
    IF n = 0 THEN { <<>> }
    ELSE LET shorter == Pieces(n - 1) IN
         shorter \cup { s \o piece : s \in shorter, piece \in PasswordPieces }

PasswordTexts == Pieces(MaxPieces)

UuidTexts == {
    <<"1","2","3","e","4","5","6","7","-","e","8","9","b","-","1","2","d","3",
      "-","a","4","5","6","-","4","2","6","6","1","4","1","7","4","0","0","0">>,
    <<"1","2","3","E","4","5","6","7","-","E","8","9","B","-","4","2","D","3",
      "-","B","4","5","6","-","4","2","6","6","1","4","1","7","4","0","0","0">>,
    <<"1","2","3","e","4","5","6","7","-","e","8","9","b","-","6","2","d","3",
      "-","a","4","5","6","-","4","2","6","6","1","4","1","7","4","0","0","0">> }

ProbeInputs ==
    { Str(s) : s \in EmailTexts \cup PasswordTexts \cup UuidTexts }
        \cup { Num(-1, 0), Num(0, 0), Num(2, 0), Num(1, 5), NaN, Undefined, NullValue }

\* the (min, max) pairs tried: two of INPUT_LIMITS and two narrow ones
LengthBounds == { <<INPUT_LIMITS.POLL_ID.MIN, INPUT_LIMITS.POLL_ID.MAX>>,
                  <<INPUT_LIMITS.EMAIL.MIN, INPUT_LIMITS.EMAIL.MAX>>,
                  <<2, 4>>, <<0, 0>> }

Probed(fn, min, max, value) ==
    /\ probe.fn = "none"
    /\ probe' = [input |-> probe.input, value |-> value, min |-> min, max |-> max,
                 fn |-> fn]
    /\ UNCHANGED <<now, rateLimitMap, response, served, limiter, hist, obs, text,
                   polls, pollResult, inflight, admitted, votes, voteResult,
                   authCall,
                   access, form, admin, retry, solo>>

ProbeSanitizeInput ==
    Probed("sanitizeInput", 0, 0, sanitizeInput(Text(probe.input)))
ProbeIsValidEmail ==
    Probed("isValidEmail", 0, 0, isValidEmail(Text(probe.input)))
ProbeIsStrongPassword ==
    Probed("isStrongPassword", 0, 0, isStrongPassword(Text(probe.input)))
ProbeValidateLength(min, max) ==
    Probed("validateLength", min, max, validateLength(Text(probe.input), min, max))
ProbeIsValidUUID ==
    Probed("isValidUUID", 0, 0, isValidUUID(Text(probe.input)))
ProbeIsValidOptionIndex(maxOptions) ==
    Probed("isValidOptionIndex", 0, maxOptions,
           isValidOptionIndex(probe.input, maxOptions))

InitValidators ==
    /\ now = 0
    /\ rateLimitMap = <<>>
    /\ response = NoResponse
    /\ served = 0
    /\ limiter = LimiterNone
    /\ hist = <<>>
    /\ obs = ObsNone
    /\ text = TextNone
    /\ polls = <<>>
    /\ pollResult = PollResultNone
    /\ inflight = <<>>
    /\ admitted = <<>>
    /\ probe \in { [ProbeNone EXCEPT !.input = v] : v \in ProbeInputs }
    /\ votes = <<>>
    /\ voteResult = VoteResultNone
    /\ authCall = AuthCallNone
    /\ access = AccessNone
    /\ form = FormNone
    /\ admin = AdminNone
    /\ retry = RetryNone
    /\ solo = <<>>

NextValidators ==
    \/ ProbeSanitizeInput
    \/ ProbeIsValidEmail
    \/ ProbeIsStrongPassword
    \/ \E bounds \in LengthBounds : ProbeValidateLength(bounds[1], bounds[2])
    \/ ProbeIsValidUUID
    \/ \E maxOptions \in {0, 2, 100} : ProbeIsValidOptionIndex(maxOptions)

SpecValidators == InitValidators /\ [][NextValidators]_vars

---------------------------------------------------------------------------
(* Claims about the validators.                                            *)

\* C15: validateLength(s, min, max) is true exactly when s is a string whose
\* length without its leading and trailing whitespace lies in min..max (both
\* ends included); it is false for every value that is not a string.
C15_ValidateLength ==
    probe.fn = "validateLength" =>
        LET s == probe.input.chars
            kept == { i \in 1..Len(s) : ~IsSpace(s[i]) }
            first == CHOOSE i \in kept : \A k \in kept : i <= k
            last == CHOOSE i \in kept : \A k \in kept : i >= k
            length == IF kept = {} THEN 0 ELSE last - first + 1
        IN  probe.value = (/\ probe.input.type = "string"
                           /\ probe.min <= length
                           /\ length <= probe.max)

\* a string longer than max is accepted because its trimmed length is max
C15_Witness ==
    /\ probe.fn = "validateLength"
    /\ probe.value
    /\ Len(probe.input.chars) > probe.max
    /\ Len(trim(probe.input.chars)) = probe.max

\* C16: isStrongPassword(s) is true exactly when s is a string of at least 8
\* characters (untrimmed) with an uppercase letter, a lowercase letter and a
\* digit; a password missing one class is rejected whatever its length, and
\* "Abcdefg1" is accepted.
C16_StrongPassword ==
    probe.fn = "isStrongPassword" =>
        LET s == probe.input.chars
            Has(class) == \E i \in 1..Len(s) : s[i] \in class
        IN  /\ probe.value = (/\ probe.input.type = "string"
                              /\ Len(s) >= 8
                              /\ Has(Range(UpperChars))
                              /\ Has(Range(LowerChars))
                              /\ Has(Range(DigitChars)))
            /\ probe.input = Str(<<"A","b","c","d","e","f","g","1">>) => probe.value

\* "Abcdefg1" was accepted
C16_Witness ==
    /\ probe.fn = "isStrongPassword"
    /\ probe.input = Str(<<"A","b","c","d","e","f","g","1">>)
    /\ probe.value

\* C18: for a wrong-typed value sanitizeInput returns the empty string and
\* every validator returns false, and every call returns a value of its
\* result type (a string, a boolean) whatever it is given.
C18_Total ==
    probe.fn # "none" =>
        /\ probe.fn = "sanitizeInput" =>
              /\ IsString(probe.value)
              /\ probe.input.type # "string" => probe.value = <<>>
        /\ probe.fn \in {"isValidEmail", "isStrongPassword", "validateLength",
                         "isValidUUID"} =>
              /\ probe.value \in BOOLEAN
              /\ probe.input.type # "string" => probe.value = FALSE
        /\ probe.fn = "isValidOptionIndex" =>
              /\ probe.value \in BOOLEAN
              /\ probe.input.type # "number" => probe.value = FALSE

\* the sanitizer was given undefined
C18_Witness ==
    /\ probe.fn = "sanitizeInput"
    /\ probe.input = Undefined
    /\ probe.value = <<>>

\* C19 as stated: isValidEmail(s) is true exactly when s is a string that,
\* trimmed, is a non-empty local part, a single '@', and a domain part whose
\* last '.' has non-empty text on both sides, with no whitespace and no
\* further '@'.
C19_EmailShape ==
    probe.fn = "isValidEmail" =>
        LET t == trim(probe.input.chars)
            ats == { i \in 1..Len(t) : t[i] = "@" }
            at == CHOOSE i \in ats : TRUE
            dots == { j \in (at + 1)..Len(t) : t[j] = "." }
            lastDot == CHOOSE j \in dots : \A k \in dots : j >= k
        IN  probe.value = (/\ probe.input.type = "string"
                           /\ Cardinality(ats) = 1
                           /\ \A i \in 1..Len(t) : ~IsSpace(t[i])
                           /\ at > 1
                           /\ dots # {}
                           /\ lastDot > at + 1
                           /\ lastDot < Len(t))

\* C19, amended: isValidEmail(s) is true exactly when s is a string that,
\* trimmed, is a non-empty local part, a single '@', and a domain part in
\* which some '.' has non-empty text on both sides (the domain may end with
\* a '.'), with no whitespace and no further '@'.
C19_EmailShapeSomeDot ==
    probe.fn = "isValidEmail" =>
        LET t == trim(probe.input.chars)
            ats == { i \in 1..Len(t) : t[i] = "@" }
            at == CHOOSE i \in ats : TRUE
            dots == { j \in (at + 1)..Len(t) : t[j] = "." }
        IN  probe.value = (/\ probe.input.type = "string"
                           /\ Cardinality(ats) = 1
                           /\ \A i \in 1..Len(t) : ~IsSpace(t[i])
                           /\ at > 1
                           /\ \E j \in dots : j > at + 1 /\ j < Len(t))

\* an address with whitespace around it was accepted
C19_Witness ==
    /\ probe.fn = "isValidEmail"
    /\ probe.value
    /\ probe.input.chars # trim(probe.input.chars)

---------------------------------------------------------------------------
(* src/app/lib/actions/poll-actions.ts: submitVote, and                    *)
(* app/api/polls/vote/route.ts: POST                                       *)

MaxVotes == 1       \* rows in the votes table
MaxIndex == 100     \* largest whole option index tried

VoteFailed(table, message, status) ==
    [status |-> status, error |-> message, inserted |-> FALSE, table |-> table]

\* supabase.from("votes").insert([{poll_id, user_id, option_index}])
InsertVote(table, pollId, user, optionIndex) ==
    Append(table, [user_id |-> user, poll_id |-> pollId,
                   option_index |-> optionIndex])

\* !pollId || !validateLength(pollId, POLL_ID.MIN, POLL_ID.MAX); a falsy
\* value that is not the empty string is not a string either
InvalidPollId(pollId) ==
    \/ pollId = Str(<<>>)
    \/ ~validateLength(Text(pollId), INPUT_LIMITS.POLL_ID.MIN,
                       INPUT_LIMITS.POLL_ID.MAX)

\* submitVote(pollId, optionIndex); user is the signed-in user's id or ""
submitVote(table, pollId, optionIndex, user, dbError) ==
    IF InvalidPollId(pollId) THEN VoteFailed(table, "Invalid poll ID.", 0)
    ELSE IF ~isValidOptionIndex(optionIndex, 100)
    THEN VoteFailed(table, "Invalid option index.", 0)
    ELSE IF dbError THEN VoteFailed(table, "error.message", 0)
    ELSE [status |-> 0,
          error |-> "", inserted |-> TRUE, table |-> InsertVote(table, pollId.chars, user, optionIndex)]

\* app/api/polls/vote/route.ts: POST
POST_vote(table, pollId, optionIndex, user, dbError) ==
    IF InvalidPollId(pollId) THEN VoteFailed(table, "Invalid poll ID.", 400)
    ELSE IF ~isValidOptionIndex(optionIndex, 100)
    THEN VoteFailed(table, "Invalid option index.", 400)
    ELSE IF dbError THEN VoteFailed(table, "error.message", 500)
    ELSE [status |-> 200,
          error |-> "", inserted |-> TRUE, table |-> InsertVote(table, pollId.chars, user, optionIndex)]

\* the option index of a run is drawn at its start: it is the value given to
\* isValidOptionIndex directly and the one the client sends with its votes
IndexValues ==
    { Num(i, 0) : i \in -1..MaxIndex }
        \cup { Num(1, 5), NaN, Str(<<"1">>), Undefined }

VotePollIds == { Str(<<"p","1">>), Str(<<>>), Str(<<" "," ">>), Undefined }
Voters == { "u1", "" }

RecordVote(op, pollId, outcome) ==
    /\ votes' = outcome.table
    /\ voteResult' = [status |-> outcome.status, op |-> op, error |-> outcome.error,
                      pollId |-> pollId, inserted |-> outcome.inserted]
    /\ UNCHANGED <<now, rateLimitMap, response, served, limiter, hist, obs, text,
                   polls, pollResult, inflight, admitted, probe, authCall,
                   access, form, admin, retry, solo>>

\* an insert into a full table fails
SubmitVote(pollId, user, dbError) ==
    /\ Len(votes) >= MaxVotes => dbError
    /\ \E outcome \in { submitVote(votes, pollId, probe.input, user, dbError) } :
          RecordVote("submitVote", pollId, outcome)

PostVote(pollId, user, dbError) ==
    /\ Len(votes) >= MaxVotes => dbError
    /\ \E outcome \in { POST_vote(votes, pollId, probe.input, user, dbError) } :
          RecordVote("POST", pollId, outcome)

InitVotes ==
    /\ now = 0
    /\ rateLimitMap = <<>>
    /\ response = NoResponse
    /\ served = 0
    /\ limiter = LimiterNone
    /\ hist = <<>>
    /\ obs = ObsNone
    /\ text = TextNone
    /\ polls = <<>>
    /\ pollResult = PollResultNone
    /\ inflight = <<>>
    /\ admitted = <<>>
    /\ probe \in { [ProbeNone EXCEPT !.input = v] : v \in IndexValues }
    /\ votes = <<>>
    /\ voteResult = VoteResultNone
    /\ authCall = AuthCallNone
    /\ access = AccessNone
    /\ form = FormNone
    /\ admin = AdminNone
    /\ retry = RetryNone
    /\ solo = <<>>

NextVotes ==
    \/ \E maxOptions \in {0, 2, 100} : ProbeIsValidOptionIndex(maxOptions)
    \/ \E pollId \in VotePollIds, user \in Voters, dbError \in BOOLEAN :
          \/ SubmitVote(pollId, user, dbError)
          \/ PostVote(pollId, user, dbError)

SpecVotes == InitVotes /\ [][NextVotes]_vars

\* C17: isValidOptionIndex(i, maxOptions) is true exactly when i is a number
\* that is an integer with 0 <= i < maxOptions; with maxOptions = 100 it is
\* true for every i in 0..99 and false for -1, 100, 1.5 and non-numeric
\* values, and submitVote and POST /api/polls/vote, which pass 100, record no
\* vote when it is false.
C17_OptionIndex ==
    LET index == probe.input
        InRange(m) == /\ index.type = "number"
                      /\ index.finite
                      /\ index.tenths = 0
                      /\ 0 <= index.whole
                      /\ index.whole < m
    IN  /\ probe.fn = "isValidOptionIndex" =>
              /\ probe.value = InRange(probe.max)
              /\ probe.max = 100 =>
                    /\ index \in { Num(i, 0) : i \in 0..99 } => probe.value
                    /\ index \in { Num(-1, 0), Num(100, 0), Num(1, 5), NaN,
                                   Str(<<"1">>), Undefined } => ~probe.value
        /\ (voteResult.op # "none" /\ ~InRange(100)) =>
              /\ ~voteResult.inserted
              /\ votes = <<>>
              /\ voteResult.error \in {"Invalid poll ID.", "Invalid option index."}
        /\ \A r \in DOMAIN votes :
              votes[r].option_index.whole \in 0..99

\* index 100 was refused by the function and by the route handler, for a
\* well-formed poll id
C17_Witness ==
    /\ probe.fn = "isValidOptionIndex"
    /\ probe.max = 100
    /\ probe.input = Num(100, 0)
    /\ ~probe.value
    /\ voteResult.op = "POST"
    /\ voteResult.error = "Invalid option index."
    /\ voteResult.status = 400

---------------------------------------------------------------------------
(* src/app/lib/actions/auth-actions.ts: login and register                 *)

\* !value
Falsy(v) ==
    \/ v.type = "undefined"
    \/ v = NullValue
    \/ v = Str(<<>>)
    \/ v.type = "number" /\ (~v.finite \/ (v.whole = 0 /\ v.tenths = 0))

AuthFailed(message) ==
    [called |-> FALSE, error |-> message, given |-> <<>>]

\* supabase.auth.signInWithPassword / signUp: what the provider is given,
\* and the message of the error it answers with, if any
Provider(email, password, name, providerError) ==
    [called |-> TRUE,
     error |-> IF providerError THEN "error.message" ELSE "",
     given |-> [name |-> name, email |-> email, password |-> password]]

\* login with the password sanitized like the e-mail address
login_sanitized(data, providerError) ==
    IF Falsy(data.email) \/ Falsy(data.password)
    THEN AuthFailed("Email and password are required.")
    ELSE LET sanitizedEmail == sanitizeInput(Text(data.email))
             sanitizedPassword == Str(sanitizeInput(Text(data.password)))
         IN  IF ~isValidEmail(sanitizedEmail)
             THEN AuthFailed("Please enter a valid email address.")
             ELSE IF ~validateLength(sanitizedEmail, INPUT_LIMITS.EMAIL.MIN,
                                     INPUT_LIMITS.EMAIL.MAX)
             THEN AuthFailed("Email must be between 3 and 254 characters.")
             ELSE IF sanitizedPassword.type = "string"
                     /\ Len(sanitizedPassword.chars) < 1
             THEN AuthFailed("Password is required.")
             ELSE Provider(sanitizedEmail, sanitizedPassword, <<>>, providerError)

\* login(data)
login(data, providerError) ==
    IF Falsy(data.email) \/ Falsy(data.password)
    THEN AuthFailed("Email and password are required.")
    ELSE LET sanitizedEmail == sanitizeInput(Text(data.email))
             sanitizedPassword == data.password
         IN  IF ~isValidEmail(sanitizedEmail)
             THEN AuthFailed("Please enter a valid email address.")
             ELSE IF ~validateLength(sanitizedEmail, INPUT_LIMITS.EMAIL.MIN,
                                     INPUT_LIMITS.EMAIL.MAX)
             THEN AuthFailed("Email must be between 3 and 254 characters.")
             \* .length of a value that is not a string is undefined, and
             \* undefined < 1 is false
             ELSE IF sanitizedPassword.type = "string"
                     /\ Len(sanitizedPassword.chars) < 1
             THEN AuthFailed("Password is required.")
             ELSE Provider(sanitizedEmail, sanitizedPassword, <<>>, providerError)

\* register(data)
register(data, providerError) ==
    IF Falsy(data.name) \/ Falsy(data.email) \/ Falsy(data.password)
    THEN AuthFailed("Name, email, and password are required.")
    ELSE LET sanitizedName == sanitizeInput(Text(data.name))
             sanitizedEmail == sanitizeInput(Text(data.email))
             sanitizedPassword == data.password
         IN  IF ~validateLength(sanitizedName, INPUT_LIMITS.NAME.MIN,
                                INPUT_LIMITS.NAME.MAX)
             THEN AuthFailed("Name must be between 2 and 100 characters.")
             ELSE IF ~isValidEmail(sanitizedEmail)
             THEN AuthFailed("Please enter a valid email address.")
             ELSE IF ~validateLength(sanitizedEmail, INPUT_LIMITS.EMAIL.MIN,
                                     INPUT_LIMITS.EMAIL.MAX)
             THEN AuthFailed("Email must be between 3 and 254 characters.")
             ELSE IF ~isStrongPassword(Text(sanitizedPassword))
             THEN AuthFailed("Password must be at least 8 characters long and contain at least one uppercase letter, one lowercase letter, and one number.")
             ELSE Provider(sanitizedEmail, sanitizedPassword, sanitizedName,
                           providerError)

\* a strong password one character longer than INPUT_LIMITS.PASSWORD.MAX
LongPassword ==
    Str(<<"A","b","1">> \o [i \in 1..(INPUT_LIMITS.PASSWORD.MAX - 2) |-> "x"])

\* what the forms submit
AuthNames == { Str(<<"A","l">>), Str(<<" ","A","l"," ">>), Str(<<"A">>), Str(<<>>) }

AuthEmails == { Str(<<"a","@","b",".","c">>),
                Str(<<" ","a","@","b",".","c"," ">>),
                Str(<<"d","a","t","a",":","a","@","b",".","c">>),
                Str(<<"a","@","b">>),
                Str(<<>>) }

AuthPasswords == { Str(<<"A","b","c","d","e","f","g","1">>),
                   Str(<<" ","A","b","c","d","e","f","g","1"," ">>),
                   Str(<<"o","n","l","o","a","d","=","A","b","c","d","e","f","g","1">>),
                   Str(<<"d","a","t","a",":">>),
                   Str(<<" ">>),
                   Str(<<>>),
                   Num(5, 0),
                   Undefined,
                   LongPassword }

AuthForms == { [name |-> n, email |-> m, password |-> p] :
                   n \in AuthNames, m \in AuthEmails, p \in AuthPasswords }

RecordAuth(op, data, outcome) ==
    /\ authCall' = [called |-> outcome.called, op |-> op, error |-> outcome.error,
                    data |-> data, given |-> outcome.given]
    /\ UNCHANGED <<now, rateLimitMap, response, served, limiter, hist, obs, text,
                   polls, pollResult, inflight, admitted, probe, votes,
                   voteResult,
                   access, form, admin, retry, solo>>

Login(data, providerError) ==
    RecordAuth("login", data, login(data, providerError))

Register(data, providerError) ==
    RecordAuth("register", data, register(data, providerError))

NextAuth ==
    \E data \in AuthForms, providerError \in BOOLEAN :
        \/ Login(data, providerError)
        \/ Register(data, providerError)

SpecAuth == Init /\ [][NextAuth]_vars

\* C20: whenever login or register calls the auth provider, the password it
\* hands over is the submitted data.password, unchanged.
C20_PasswordUnchanged ==
    authCall.called => authCall.given.password = authCall.data.password

\* login reached the provider with a password that sanitizing would have
\* changed
C20_Witness ==
    /\ authCall.called
    /\ authCall.op = "login"
    /\ authCall.data.password.type = "string"
    /\ sanitizeInput(authCall.data.password.chars) # authCall.data.password.chars
    /\ authCall.given.password = authCall.data.password

\* C21: register forwards a registration to the auth provider only if the
\* password's length is within INPUT_LIMITS.PASSWORD (8..128); a longer
\* password yields an error and no call of signUp.
C21_PasswordBounds ==
    (authCall.op = "register" /\ authCall.called) =>
        /\ authCall.data.password.type = "string"
        /\ Len(authCall.data.password.chars) >= INPUT_LIMITS.PASSWORD.MIN
        /\ Len(authCall.data.password.chars) <= INPUT_LIMITS.PASSWORD.MAX

---------------------------------------------------------------------------
(* Deleting and updating stored polls: lib/actions/poll-actions.ts         *)
(* deletePoll, updatePoll and app/api/polls/[id]/route.ts DELETE, PUT.     *)

\* the profiles table: the role of each user that has a profile row
Profiles == [u1 |-> "user", u2 |-> "user", adm |-> "admin"]

\* supabase.from('profiles').select('role').eq('id', user.id).single(), then
\* profile?.role: no row gives undefined, written ""
ProfileRole(profiles, user) ==
    IF user \in DOMAIN profiles THEN profiles[user] ELSE ""

\* supabase.from("polls").select("user_id").eq("id", id).single()
PollsWithId(table, id) == { i \in DOMAIN table : table[i].id = id }

OwnerOf(table, id) ==
    LET i == CHOOSE j \in PollsWithId(table, id) : TRUE IN table[i].user_id

\* supabase.from("polls").delete().eq("id", id)
Delete(table, id) == SelectSeq(table, LAMBDA row : row.id # id)

\* queried: the id was handed to the persistence client
Refused(table, message, status, queried) ==
    [status |-> status, error |-> message, queried |-> queried, table |-> table]

\* deletePoll without the ownership and role check
deletePoll_anyUser(table, profiles, id, session, dbError) ==
    IF InvalidPollId(id) THEN Refused(table, "Invalid poll ID.", 0, FALSE)
    ELSE IF session.error THEN Refused(table, "userError.message", 0, FALSE)
    ELSE IF session.user = ""
    THEN Refused(table, "You must be logged in to delete a poll.", 0, FALSE)
    ELSE IF PollsWithId(table, Text(id)) = {}
    THEN Refused(table, "Poll not found.", 0, TRUE)
    ELSE IF dbError THEN Refused(table, "error.message", 0, TRUE)
    ELSE [status |-> 0, error |-> "", queried |-> TRUE,
          table |-> Delete(table, Text(id))]

\* lib/actions/poll-actions.ts: deletePoll
deletePoll(table, profiles, id, session, dbError) ==
    IF InvalidPollId(id) THEN Refused(table, "Invalid poll ID.", 0, FALSE)
    ELSE IF session.error THEN Refused(table, "userError.message", 0, FALSE)
    ELSE IF session.user = ""
    THEN Refused(table, "You must be logged in to delete a poll.", 0, FALSE)
    ELSE IF PollsWithId(table, Text(id)) = {}
    THEN Refused(table, "Poll not found.", 0, TRUE)
    ELSE IF /\ OwnerOf(table, Text(id)) # session.user
            /\ ProfileRole(profiles, session.user) # "admin"
    THEN Refused(table, "You can only delete your own polls.", 0, TRUE)
    ELSE IF dbError THEN Refused(table, "error.message", 0, TRUE)
    ELSE [status |-> 0, error |-> "", queried |-> TRUE,
          table |-> Delete(table, Text(id))]

\* app/api/polls/[id]/route.ts: DELETE
DELETE(table, profiles, id, session, dbError) ==
    IF InvalidPollId(id) THEN Refused(table, "Invalid poll ID.", 400, FALSE)
    ELSE IF session.error THEN Refused(table, "userError.message", 500, FALSE)
    ELSE IF session.user = ""
    THEN Refused(table, "You must be logged in to delete a poll.", 401, FALSE)
    ELSE IF PollsWithId(table, Text(id)) = {}
    THEN Refused(table, "Poll not found.", 404, TRUE)
    ELSE IF /\ OwnerOf(table, Text(id)) # session.user
            /\ ProfileRole(profiles, session.user) # "admin"
    THEN Refused(table, "You can only delete your own polls.", 403, TRUE)
    ELSE IF dbError THEN Refused(table, "error.message", 500, TRUE)
    ELSE [status |-> 200, error |-> "", queried |-> TRUE,
          table |-> Delete(table, Text(id))]

\* the callers: the two owners, an admin, a user without a profile row, no
\* session, and a failing getUser
Callers == Sessions \cup { [user |-> "adm", error |-> FALSE],
                           [user |-> "u3",  error |-> FALSE] }

\* the polls stored before: one created by u1 and one created by u2
StoredPolls ==
    Insert(Insert(<<>>, <<"p","1">>, "u1", <<"P","i","c","k"," ","o","n","e">>,
                  << <<"a">>, <<"b">> >>),
           <<"p","2">>, "u2", <<"d","a","t","a",":","a","b">>,
           << <<"a">>, <<"b">> >>)

\* the ids callers send: a stored one and one that is not stored
TargetIds == { <<"p","1">>, <<"p","3">> }

\* the forms sent with an update: one that is refused, one that is accepted
UpdateForms == {
    [question |-> <<>>,
     options  |-> << <<"a">>, <<"b">> >>],
    [question |-> <<"n","e","w">>,
     options  |-> << <<"c">>, <<"d">> >>] }

RecordAccess(op, id, session, outcome, queried) ==
    /\ polls' = outcome.table
    /\ access' = [user |-> session.user, status |-> outcome.status, op |-> op,
                  error |-> outcome.error, id |-> id,
                  queried |-> queried]
    /\ UNCHANGED <<now, rateLimitMap, response, served, limiter, hist, obs, text,
                   pollResult, inflight, admitted, probe, votes, voteResult,
                   authCall, form, admin, retry, solo>>

DeletePoll(id, session, dbError) ==
    \E r \in { deletePoll(polls, Profiles, id, session, dbError) } :
        RecordAccess("deletePoll", id, session, r, r.queried)

DeleteRoute(id, session, dbError) ==
    \E r \in { DELETE(polls, Profiles, id, session, dbError) } :
        RecordAccess("DELETE", id, session, r, r.queried)

\* updatePoll and PUT hand the id to the persistence client when they reach
\* the update statement: on every return after the login check
ReachedUpdate(outcome) == outcome.error \in {"", "error.message"}

UpdateStored(id, formData, session, dbError) ==
    \E r \in { updatePoll(polls, Text(id), formData, session, dbError) } :
        RecordAccess("updatePoll", id, session, r, ReachedUpdate(r))

PutStored(id, formData, session, dbError) ==
    \E r \in { PUT(polls, Text(id), formData, session, dbError) } :
        RecordAccess("PUT", id, session, r, ReachedUpdate(r))

InitAccess ==
    /\ now = 0
    /\ rateLimitMap = <<>>
    /\ response = NoResponse
    /\ served = 0
    /\ limiter = LimiterNone
    /\ hist = <<>>
    /\ obs = ObsNone
    /\ text = TextNone
    /\ polls = StoredPolls
    /\ pollResult = PollResultNone
    /\ inflight = <<>>
    /\ admitted = <<>>
    /\ probe = ProbeNone
    /\ votes = <<>>
    /\ voteResult = VoteResultNone
    /\ authCall = AuthCallNone
    /\ access = AccessNone
    /\ form = FormNone
    /\ admin = AdminNone
    /\ retry = RetryNone
    /\ solo = <<>>

NextAccess ==
    \E id \in TargetIds, session \in Callers, dbError \in BOOLEAN :
        \/ DeletePoll(Str(id), session, dbError)
        \/ DeleteRoute(Str(id), session, dbError)
        \/ \E formData \in UpdateForms :
              \/ UpdateStored(Str(id), formData, session, dbError)
              \/ PutStored(Str(id), formData, session, dbError)

SpecAccess == InitAccess /\ [][NextAccess]_vars

\* the caller of the step just taken is logged in and is the owner of the
\* row, or has the role admin
MayDelete(row, user) ==
    /\ user # ""
    /\ (row.user_id = user \/ ProfileRole(Profiles, user) = "admin")

\* C22: a poll is deleted only by a call of deletePoll or DELETE whose caller
\* is authenticated and is the poll's owner or has the profile role admin;
\* every other call of them returns an error and leaves the polls in place.
C22_DeleteAuthorized ==
    [][ /\ \A i \in DOMAIN polls :
              PollsWithId(polls', polls[i].id) = {} =>
                  /\ access'.op \in {"deletePoll", "DELETE"}
                  /\ access'.id = Str(polls[i].id)
                  /\ access'.error = ""
                  /\ MayDelete(polls[i], access'.user)
        /\ (/\ access'.op \in {"deletePoll", "DELETE"}
            /\ \A i \in DOMAIN polls :
                  access'.id = Str(polls[i].id) =>
                      ~MayDelete(polls[i], access'.user))
           => (access'.error # "" /\ polls' = polls) ]_vars

\* the admin deleted a poll of another user, and a user without the role was
\* refused for a stored poll
C22_Witness ==
    /\ access.op = "deletePoll"
    /\ access.user = "adm"
    /\ access.error = ""
    /\ access.id = Str(<<"p","1">>)
    /\ PollsWithId(polls, <<"p","1">>) = {}
    /\ PollsWithId(polls, <<"p","2">>) # {}

\* C23: the question and options of a stored poll change only by a call of
\* updatePoll or PUT whose caller is authenticated and owns the poll; a call
\* by anyone else leaves every stored poll unchanged.
C23_UpdateByOwner ==
    [][ /\ \A i \in DOMAIN polls :
              \A j \in PollsWithId(polls', polls[i].id) :
                  (polls'[j].question # polls[i].question
                      \/ polls'[j].options # polls[i].options) =>
                      /\ access'.op \in {"updatePoll", "PUT"}
                      /\ access'.id = Str(polls[i].id)
                      /\ access'.user # ""
                      /\ access'.user = polls[i].user_id
        /\ (/\ access'.op \in {"updatePoll", "PUT"}
            /\ \A i \in DOMAIN polls :
                  access'.id = Str(polls[i].id) =>
                      (access'.user = "" \/ access'.user # polls[i].user_id))
           => polls' = polls ]_vars

\* the owner changed the poll, after which the admin, who does not own it,
\* sent an accepted form and got no error
C23_Witness ==
    /\ access.op = "updatePoll"
    /\ access.user = "adm"
    /\ access.error = ""
    /\ access.id = Str(<<"p","1">>)
    /\ \E i \in DOMAIN polls :
          /\ polls[i].id = <<"p","1">>
          /\ polls[i].question = <<"n","e","w">>

---------------------------------------------------------------------------
(* The operations that take a poll id.                                     *)

\* a fetched poll: its row in the table, 0 when none is returned
Fetched(table, row, message, status, queried) ==
    [status |-> status, error |-> message, row |-> row,
     queried |-> queried, table |-> table]

\* lib/actions/poll-actions.ts: getPollById; .single() fails when no row has
\* the id
getPollById(table, id, dbError) ==
    IF InvalidPollId(id) THEN Fetched(table, 0, "Invalid poll ID.", 0, FALSE)
    ELSE IF dbError \/ PollsWithId(table, Text(id)) = {}
    THEN Fetched(table, 0, "error.message", 0, TRUE)
    ELSE Fetched(table, CHOOSE i \in PollsWithId(table, Text(id)) : TRUE,
                 "", 0, TRUE)

\* app/api/polls/[id]/route.ts: GET
GET(table, id, dbError) ==
    IF InvalidPollId(id) THEN Fetched(table, 0, "Invalid poll ID.", 400, FALSE)
    ELSE IF dbError \/ PollsWithId(table, Text(id)) = {}
    THEN Fetched(table, 0, "error.message", 404, TRUE)
    ELSE Fetched(table, CHOOSE i \in PollsWithId(table, Text(id)) : TRUE,
                 "", 200, TRUE)

\* an id one character longer than INPUT_LIMITS.POLL_ID.MAX
LongId == Str([i \in 1..(INPUT_LIMITS.POLL_ID.MAX + 1) |-> "x"])

\* the ids callers send: a stored one, the empty string, blanks, an id that is
\* too long, and no string at all
SentIds == { Str(<<"p","1">>), Str(<<>>), Str(<<" "," ">>), LongId, Undefined }

GetPollById(id, dbError) ==
    \E r \in { getPollById(polls, id, dbError) } :
        RecordAccess("getPollById", id, [user |-> "", error |-> FALSE], r,
                     r.queried)

GetRoute(id, dbError) ==
    \E r \in { GET(polls, id, dbError) } :
        RecordAccess("GET", id, [user |-> "", error |-> FALSE], r, r.queried)

\* submitVote and POST /api/polls/vote hand the id to the persistence client
\* when they reach the insert: on every return after the two input checks
ReachedInsert(outcome) == outcome.error \in {"", "error.message"}

RecordVoteAccess(op, id, user, outcome) ==
    /\ votes' = outcome.table
    /\ access' = [user |-> user, status |-> outcome.status, op |-> op,
                  error |-> outcome.error, id |-> id,
                  queried |-> ReachedInsert(outcome)]
    /\ UNCHANGED <<now, rateLimitMap, response, served, limiter, hist, obs, text,
                   polls, pollResult, inflight, admitted, probe, voteResult,
                   authCall, form, admin, retry, solo>>

VoteById(id, user, dbError) ==
    /\ Len(votes) >= MaxVotes => dbError
    /\ \E r \in { submitVote(votes, id, Num(0, 0), user, dbError) } :
          RecordVoteAccess("submitVote", id, user, r)

VoteRouteById(id, user, dbError) ==
    /\ Len(votes) >= MaxVotes => dbError
    /\ \E r \in { POST_vote(votes, id, Num(0, 0), user, dbError) } :
          RecordVoteAccess("POST", id, user, r)

NextIds ==
    \E id \in SentIds, dbError \in BOOLEAN :
        \/ GetPollById(id, dbError)
        \/ GetRoute(id, dbError)
        \/ \E session \in { [user |-> "u1", error |-> FALSE],
                            [user |-> "",   error |-> FALSE] } :
              \/ VoteById(id, session.user, dbError)
              \/ VoteRouteById(id, session.user, dbError)
              \/ DeletePoll(id, session, dbError)
              \/ DeleteRoute(id, session, dbError)
              \/ \E formData \in UpdateForms :
                    \/ UpdateStored(id, formData, session, dbError)
                    \/ PutStored(id, formData, session, dbError)

SpecIds == InitAccess /\ [][NextIds]_vars

\* C25: every operation that takes a poll id hands it to the persistence
\* layer only if it is a non-empty string whose trimmed length is within
\* 1..100; otherwise it returns an error without a persistence read or write.
C25_IdChecked ==
    access.op # "none" =>
        LET valid == /\ access.id.type = "string"
                     /\ access.id # Str(<<>>)
                     /\ validateLength(Text(access.id),
                                       INPUT_LIMITS.POLL_ID.MIN,
                                       INPUT_LIMITS.POLL_ID.MAX)
        IN  /\ access.queried => valid
            /\ ~valid => access.error # ""

---------------------------------------------------------------------------
(* Polls at the length limits of INPUT_LIMITS.QUESTION and OPTION.         *)

Pad(n) == [i \in 1..n |-> "x"]

\* forms at and next to the limits: questions of 2, 3, 500 and 501
\* characters, options of 200 and 201 characters, an option that is blank,
\* and fewer than two options
LengthForms == {
    [question |-> <<" ","a","b"," ">>,
     options  |-> << <<"a">>, <<"b">> >>],
    [question |-> <<"a","b","c">>,
     options  |-> << <<"a">>, <<"b">> >>],
    [question |-> Pad(INPUT_LIMITS.QUESTION.MAX),
     options  |-> << <<"a">>, <<"b">> >>],
    [question |-> Pad(INPUT_LIMITS.QUESTION.MAX + 1),
     options  |-> << <<"a">>, <<"b">> >>],
    [question |-> <<"n","e","w">>,
     options  |-> << Pad(INPUT_LIMITS.OPTION.MAX), <<"b">> >>],
    [question |-> <<"n","e","w">>,
     options  |-> << <<"a">>, Pad(INPUT_LIMITS.OPTION.MAX + 1) >>],
    [question |-> <<"n","e","w">>,
     options  |-> << <<"a">>, <<" ">> >>],
    [question |-> <<"n","e","w">>,
     options  |-> << <<"a">>, <<>> >>] }

\* the submissions come from a logged-in user
NextLengths ==
    \E formData \in LengthForms :
        \/ CreatePoll(formData, [user |-> "u1", error |-> FALSE],
                      Len(polls) >= MaxPolls)
        \/ PostPolls(formData, [user |-> "u1", error |-> FALSE],
                     Len(polls) >= MaxPolls)
        \/ UpdatePoll(<<"p","1">>, formData, [user |-> "u1", error |-> FALSE],
                      FALSE)
        \/ PutPoll(<<"p","1">>, formData, [user |-> "u1", error |-> FALSE],
                   FALSE)

SpecLengths == Init /\ [][NextLengths]_vars

\* the row holds a question and options within the limits
WithinLimits(row) ==
    /\ validateLength(row.question, INPUT_LIMITS.QUESTION.MIN,
                      INPUT_LIMITS.QUESTION.MAX)
    /\ Len(row.options) >= 2
    /\ \A i \in DOMAIN row.options :
          validateLength(row.options[i], INPUT_LIMITS.OPTION.MIN,
                         INPUT_LIMITS.OPTION.MAX)

\* C24: every poll written by createPoll, updatePoll, POST /api/polls or
\* PUT /api/polls/[id] has a question of trimmed length 3..500 and at least
\* two options, each of trimmed length 1..200, measured after sanitizing; a
\* submission that fails this gets an error and nothing is written.
C24_LengthsEnforced ==
    [][ /\ \A i \in DOMAIN polls' : WithinLimits(polls'[i])
        /\ pollResult'.error # "" => polls' = polls
        /\ ~WithinLimits([question |-> sanitizeInput(pollResult'.question),
                          options  |-> SanitizeAll(
                                          FilterBoolean(pollResult'.options))])
              => (pollResult'.error # "" /\ polls' = polls) ]_vars

\* a poll with a 200-character option was written over a stored poll, and a
\* form with a 201-character option was refused after that
C24_Witness ==
    /\ pollResult.op = "updatePoll"
    /\ pollResult.error = "Options must be between 1 and 200 characters."
    /\ Len(polls) = 1
    /\ Len(polls[1].options[1]) = INPUT_LIMITS.OPTION.MAX

---------------------------------------------------------------------------
(* app/(dashboard)/create/PollCreateForm.tsx: the list of option fields.   *)

MaxOptions == 4     \* option fields the form is grown to

\* opts.filter((_, i) => i !== idx), idx counted from 0
FilterIndex(opts, idx) ==
    IF idx < 0 \/ idx >= Len(opts) THEN opts
    ELSE SubSeq(opts, 1, idx) \o SubSeq(opts, idx + 2, Len(opts))

\* opts.map((opt, i) => (i === idx ? value : opt))
MapIndex(opts, idx, value) ==
    [i \in DOMAIN opts |-> IF i - 1 = idx THEN value ELSE opts[i]]

\* addOption: setOptions((opts) => [...opts, ""])
addOption(state) == Append(state, <<>>)

\* removeOption without the test of options.length
removeOption_unguarded(rendered, state, idx) == FilterIndex(state, idx)

\* removeOption: the test reads the options of the render the handler was
\* created in, the updater takes the current state
removeOption(rendered, state, idx) ==
    IF Len(rendered) > 2 THEN FilterIndex(state, idx) ELSE state

\* handleOptionChange
handleOptionChange(state, idx, value) == MapIndex(state, idx, value)

\* a click or input event: the handler runs, React applies the update and
\* renders the component again before the next event is handled
FormEvent(op, idx, next) ==
    /\ form' = [before |-> form.options, op |-> op, options |-> next, rendered |-> next,
                idx |-> idx]
    /\ UNCHANGED <<now, rateLimitMap, response, served, limiter, hist, obs, text,
                   polls, pollResult, inflight, admitted, probe, votes,
                   voteResult, authCall, access, admin, retry, solo>>

AddOption ==
    /\ Len(form.options) < MaxOptions
    /\ FormEvent("addOption", 0, addOption(form.options))

RemoveOption(idx) ==
    /\ idx < Len(form.options)
    /\ FormEvent("removeOption", idx,
                 removeOption(form.rendered, form.options, idx))

HandleOptionChange(idx, value) ==
    /\ idx < Len(form.options)
    /\ FormEvent("handleOptionChange", idx,
                 handleOptionChange(form.options, idx, value))

\* useState(["", ""])
InitForm ==
    /\ now = 0
    /\ rateLimitMap = <<>>
    /\ response = NoResponse
    /\ served = 0
    /\ limiter = LimiterNone
    /\ hist = <<>>
    /\ obs = ObsNone
    /\ text = TextNone
    /\ polls = <<>>
    /\ pollResult = PollResultNone
    /\ inflight = <<>>
    /\ admitted = <<>>
    /\ probe = ProbeNone
    /\ votes = <<>>
    /\ voteResult = VoteResultNone
    /\ authCall = AuthCallNone
    /\ access = AccessNone
    /\ form = [before |-> <<>>, op |-> "none",
               options |-> << <<>>, <<>> >>, rendered |-> << <<>>, <<>> >>, idx |-> 0]
    /\ admin = AdminNone
    /\ retry = RetryNone
    /\ solo = <<>>

NextForm ==
    \/ AddOption
    \/ \E idx \in 0..(MaxOptions - 1) :
          \/ RemoveOption(idx)
          \/ \E value \in { <<"a">>, <<"b">> } : HandleOptionChange(idx, value)

SpecForm == InitForm /\ [][NextForm]_vars

\* C26: starting from two empty options, the list always has at least two
\* entries; removeOption leaves a list of exactly two unchanged, and otherwise
\* removes exactly the entry at the given index.
C26_AtLeastTwoOptions ==
    /\ Len(form.options) >= 2
    /\ form.op = "removeOption" =>
          IF Len(form.before) = 2 THEN form.options = form.before
          ELSE /\ Len(form.options) = Len(form.before) - 1
               /\ \A k \in 1..Len(form.options) :
                     form.options[k] =
                        IF k <= form.idx THEN form.before[k]
                        ELSE form.before[k + 1]

\* the middle one of three distinct options was removed
C26_Witness ==
    /\ form.op = "removeOption"
    /\ form.idx = 1
    /\ form.before = << <<"a">>, <<"b">>, <<>> >>
    /\ form.options = << <<"a">>, <<>> >>

---------------------------------------------------------------------------
(* app/(dashboard)/admin/page.tsx: AdminPage.                              *)

MaxDeletes == 3     \* calls of handleDelete in flight at a time

\* the state of a mounted AdminPage: the five useState values (a
\* deleteLoading of null is the empty id), the route
\* pushed, where checkAuthorization and fetchAllPolls stand, the calls of
\* handleDelete in flight with the polls their render held, and the ids whose
\* deletePoll returned without error
AdminMounted ==
    [polls |-> <<>>, user |-> "", pc |-> "getUser", loading |-> TRUE,
     deleteLoading |-> <<>>, isAuthorized |-> FALSE, authLoading |-> TRUE,
     pushed |-> "", fetch |-> "idle", pending |-> <<>>, deleted |-> {}]

\* checkAuthorization up to the profile query: without a user it pushes
\* /login and returns
checkAuthorization_user(a, user) ==
    IF user = "" THEN [a EXCEPT !.pushed = "/login", !.pc = "returned"]
    ELSE [a EXCEPT !.user = user, !.pc = "profile"]

\* checkAuthorization authorizing whatever the role is
checkAuthorization_anyRole(a, role) ==
    [a EXCEPT !.isAuthorized = TRUE, !.fetch = "pending",
              !.authLoading = FALSE, !.pc = "returned"]

\* checkAuthorization from the profile query on
checkAuthorization_role(a, role) ==
    IF role = "admin"
    THEN [a EXCEPT !.isAuthorized = TRUE, !.fetch = "pending",
                   !.authLoading = FALSE, !.pc = "returned"]
    ELSE [a EXCEPT !.pushed = "/polls", !.authLoading = FALSE,
                   !.pc = "returned"]

\* select("*").order("created_at", { ascending: false }): the ids, newest
\* first
AllPollIds(table) == [i \in DOMAIN table |-> table[Len(table) + 1 - i].id]

\* fetchAllPolls once the query has answered
fetchAllPolls(a, data, error) ==
    [a EXCEPT !.polls = IF ~error THEN data ELSE @,
              !.loading = FALSE, !.fetch = "done"]

\* the component renders the list of polls with their delete buttons
ListRendered(a) == ~a.authLoading /\ a.isAuthorized /\ ~a.loading

\* handleDelete up to the await: the call keeps the polls of its render
handleDelete_start(a, pollId) ==
    [a EXCEPT !.deleteLoading = pollId,
              !.pending = Append(@, [polls |-> a.polls, pollId |-> pollId])]

WithoutIndex(s, i) == SubSeq(s, 1, i - 1) \o SubSeq(s, i + 1, Len(s))

\* handleDelete after the await, for the i-th call in flight:
\* setPolls(polls.filter((poll) => poll.id !== pollId)) on the polls it kept
handleDelete_finish(a, i, error) ==
    LET call == a.pending[i] IN
    [a EXCEPT !.polls = IF error = ""
                        THEN SelectSeq(call.polls,
                                       LAMBDA id : id # call.pollId)
                        ELSE @,
              !.deleteLoading = <<>>,
              !.pending = WithoutIndex(@, i),
              !.deleted = IF error = "" THEN @ \cup {call.pollId} ELSE @]

AdminStep(next) ==
    /\ admin' = next
    /\ UNCHANGED <<now, rateLimitMap, response, served, limiter, hist, obs, text,
                   polls, pollResult, inflight, admitted, probe, votes,
                   voteResult, authCall, access, form, retry, solo>>

\* getUser answers; a failing getUser gives no user
CheckUser(session) ==
    /\ admin.pc = "getUser"
    /\ AdminStep(checkAuthorization_user(
                    admin, IF session.error THEN "" ELSE session.user))

CheckRole ==
    /\ admin.pc = "profile"
    /\ AdminStep(checkAuthorization_role(
                    admin, ProfileRole(Profiles, admin.user)))

FetchAllPolls(error) ==
    /\ admin.fetch = "pending"
    /\ AdminStep(fetchAllPolls(admin, AllPollIds(polls), error))

\* a click on the delete button of a displayed poll; the button is disabled
\* while deleteLoading is the poll's id
ClickDelete(pollId) ==
    /\ ListRendered(admin)
    /\ \E i \in DOMAIN admin.polls : admin.polls[i] = pollId
    /\ admin.deleteLoading # pollId
    /\ Len(admin.pending) < MaxDeletes
    /\ AdminStep(handleDelete_start(admin, pollId))

\* deletePoll answers the i-th call in flight
FinishDelete(i, dbError) ==
    /\ i \in DOMAIN admin.pending
    /\ \E r \in { deletePoll(polls, Profiles, Str(admin.pending[i].pollId),
                             [user |-> admin.user, error |-> FALSE], dbError) } :
          /\ polls' = r.table
          /\ admin' = handleDelete_finish(admin, i, r.error)
    /\ UNCHANGED <<now, rateLimitMap, response, served, limiter, hist, obs, text,
                   pollResult, inflight, admitted, probe, votes, voteResult,
                   authCall, access, form, retry, solo>>

InitAdmin ==
    /\ now = 0
    /\ rateLimitMap = <<>>
    /\ response = NoResponse
    /\ served = 0
    /\ limiter = LimiterNone
    /\ hist = <<>>
    /\ obs = ObsNone
    /\ text = TextNone
    /\ polls = StoredPolls
    /\ pollResult = PollResultNone
    /\ inflight = <<>>
    /\ admitted = <<>>
    /\ probe = ProbeNone
    /\ votes = <<>>
    /\ voteResult = VoteResultNone
    /\ authCall = AuthCallNone
    /\ access = AccessNone
    /\ form = FormNone
    /\ admin = AdminMounted
    /\ retry = RetryNone
    /\ solo = <<>>

NextAdmin ==
    \/ \E session \in Callers : CheckUser(session)
    \/ CheckRole
    \/ \E error \in BOOLEAN : FetchAllPolls(error)
    \/ \E pollId \in PollIds : ClickDelete(pollId)
    \/ \E i \in 1..MaxDeletes, dbError \in BOOLEAN : FinishDelete(i, dbError)

SpecAdmin == InitAdmin /\ [][NextAdmin]_vars

\* C27: isAuthorized is set and fetchAllPolls is invoked only after
\* checkAuthorization found an authenticated user whose profile role is
\* admin; without a user the page pushes /login, with another role /polls,
\* and in both cases the poll list stays empty and is never rendered.
C27_AdminOnly ==
    /\ (admin.isAuthorized \/ admin.fetch # "idle") =>
          /\ admin.user # ""
          /\ ProfileRole(Profiles, admin.user) = "admin"
    /\ (admin.pc = "returned" /\ admin.user = "") =>
          /\ admin.pushed = "/login"
          /\ admin.polls = <<>>
          /\ ~ListRendered(admin)
    /\ (admin.pc = "returned" /\ admin.user # ""
            /\ ProfileRole(Profiles, admin.user) # "admin") =>
          /\ admin.pushed = "/polls"
          /\ admin.polls = <<>>
          /\ ~ListRendered(admin)
    /\ (admin.user = "" \/ ProfileRole(Profiles, admin.user) # "admin") =>
          (admin.polls = <<>> /\ ~ListRendered(admin))

\* a logged-in user without the admin role was sent to /polls
C27_Witness ==
    /\ admin.pc = "returned"
    /\ admin.user = "u1"
    /\ admin.pushed = "/polls"
    /\ ~admin.authLoading

\* C30: once every call of handleDelete has completed, the displayed list
\* holds no poll whose deletePoll returned without error.
C30_DeletedNotDisplayed ==
    (admin.pc # "none" /\ admin.pending = <<>>) =>
        \A i \in DOMAIN admin.polls : admin.polls[i] \notin admin.deleted

---------------------------------------------------------------------------
(* A client that honours Retry-After.                                      *)

\* the Retry-After header of a rejection, in milliseconds
RetryAfterMs(headers) == IF headers["Retry-After"] = "300" THEN 300 * 1000
                         ELSE 900 * 1000

\* what is known of the client's last rejection: the route class of the
\* rejected request and the time Retry-After points to.  Any request sent
\* before that time, or at that time to the other route class, ends the
\* wait; a request of the same class sent exactly then is the retry, and
\* its outcome is kept.
NextRetry(r, request, t, reply) ==
    LET class == isAuthRoute(request.pathname)
        isRetry == r.waiting /\ t = r.due /\ class = r.isAuth
    IN  IF reply.kind = "rejected"
        THEN [admitted |-> FALSE, isAuth |-> class,
              waiting |-> TRUE,
              due |-> t + RetryAfterMs(reply.headers), tested |-> isRetry]
        ELSE [admitted |-> isRetry, isAuth |-> class, waiting |-> FALSE,
              due |-> 0, tested |-> isRetry]

RetryRequest(request) ==
    /\ Handle(request)
    /\ retry' = NextRetry(retry, request, now, response')
    /\ UNCHANGED <<now, served, limiter, hist, obs, text, polls, pollResult,
                   inflight, admitted, probe, votes, voteResult, authCall,
                   access, form, admin, solo>>

NextRetryAfter ==
    \/ \E request \in { r \in LongRequests : r.user } : RetryRequest(request)
    \/ \E d \in Delays : Advance(d, MaxWindows)

SpecRetry == Init /\ [][NextRetryAfter]_vars

\* C28: when a request was rejected with Retry-After r seconds and the client
\* sent nothing until r seconds after the rejection, its next request of the
\* same route class, arriving exactly then, is admitted.
C28_RetryAdmitted ==
    retry.tested => retry.admitted

---------------------------------------------------------------------------
(* Two clients, and the first of them as it would fare alone.              *)

\* two distinct clients by the headers their requests carry: two with
\* different forwarded addresses, or two whose requests carry neither
\* x-forwarded-for nor x-real-ip
ClientPairs == {
    [own   |-> [xForwardedFor |-> Header(<<"a">>), xRealIp |-> Absent],
     other |-> [xForwardedFor |-> Header(<<"b">>), xRealIp |-> Absent]],
    [own   |-> [xForwardedFor |-> Absent, xRealIp |-> Absent],
     other |-> [xForwardedFor |-> Absent, xRealIp |-> Absent]] }

RequestOf(client, pathname) ==
    [xForwardedFor |-> client.xForwardedFor, xRealIp |-> client.xRealIp,
     pathname |-> pathname, user |-> TRUE]

\* the first client sends a request; solo.map is rateLimitMap as the same
\* requests of this client alone would have left it, and solo.alone the
\* outcome the request has on that map
OwnRequest(pathname) ==
    /\ served < MaxRequests
    /\ served' = served + 1
    /\ Handle(RequestOf(solo.pair.own, pathname))
    /\ \E r \in { middleware(solo.map, RequestOf(solo.pair.own, pathname), now) } :
          solo' = [solo EXCEPT !.map = r.map, !.alone = r.response.kind,
                               !.own = response'.kind]
    /\ UNCHANGED <<now, limiter, hist, obs, text, polls, pollResult,
                   inflight, admitted, probe, votes, voteResult, authCall,
                   access, form, admin, retry>>

\* the second client sends a request
OtherRequest(pathname) ==
    /\ served < MaxRequests
    /\ served' = served + 1
    /\ Handle(RequestOf(solo.pair.other, pathname))
    /\ UNCHANGED <<now, limiter, hist, obs, text, polls, pollResult,
                   inflight, admitted, probe, votes, voteResult, authCall,
                   access, form, admin, retry, solo>>

InitPair ==
    /\ now = 0
    /\ rateLimitMap = <<>>
    /\ response = NoResponse
    /\ served = 0
    /\ limiter = LimiterNone
    /\ hist = <<>>
    /\ obs = ObsNone
    /\ text = TextNone
    /\ polls = <<>>
    /\ pollResult = PollResultNone
    /\ inflight = <<>>
    /\ admitted = <<>>
    /\ probe = ProbeNone
    /\ votes = <<>>
    /\ voteResult = VoteResultNone
    /\ authCall = AuthCallNone
    /\ access = AccessNone
    /\ form = FormNone
    /\ admin = AdminNone
    /\ retry = RetryNone
    /\ solo \in { [map |-> <<>>, own |-> "none", pair |-> p, alone |-> "none"] :
                    p \in ClientPairs }

NextPair ==
    \/ \E pathname \in { <<"/","a","u","t","h","/","c","b">>,
                         <<"/","p","o","l","l","s">> } :
          \/ OwnRequest(pathname)
          \/ OtherRequest(pathname)
    \/ \E d \in Delays : Advance(d, ShortWindows)

SpecPair == InitPair /\ [][NextPair]_vars

\* C29: the rate-limit outcome of a client's request is the one it would
\* have had without the other client's traffic, also for clients that send
\* neither x-forwarded-for nor x-real-ip.
C29_Isolated ==
    solo.own = solo.alone

=============================================================================
